---- MODULE Spec2Model ----
(***************************************************************************)
(* State-machine model of dbrowse's interactive session engine,           *)
(* browse_connections_ui_once in src/ui.py: the closure variables of the  *)
(* session, the key bindings and the mouse handlers, over a Data Provider *)
(* with static data.                                                      *)
(*                                                                         *)
(* Conventions.                                                            *)
(*  - Indices are Python indices: 0-based, -1 for "none"; the i-th item   *)
(*    of a Python list l is l[i + 1] here.                                *)
(*  - A text is a sequence of one-character strings, so that str.strip()  *)
(*    and substring search are computed rather than assumed.              *)
(*  - A handler is a function from a state record to a state record; the  *)
(*    field exc is set when an exception escapes the code modelled and    *)
(*    ret carries the return value of the helper called last.             *)
(*  - rows and columns are modelled by their lengths; the query that      *)
(*    produced them is kept in the ghost fields lastCount and lastFetch.  *)
(***************************************************************************)
EXTENDS Integers, Sequences, FiniteSets, TLC

(***************************************************************************)
(* Texts                                                                    *)
(***************************************************************************)
None == -1
NoAdapter == "None"
Empty == << >>

Max(a, b) == IF a >= b THEN a ELSE b
Min(a, b) == IF a <= b THEN a ELSE b

RECURSIVE LStrip(_)
LStrip(t) == IF t # Empty /\ Head(t) = " " THEN LStrip(Tail(t)) ELSE t

RECURSIVE RStrip(_)
RStrip(t) ==
  IF t # Empty /\ t[Len(t)] = " " THEN RStrip(SubSeq(t, 1, Len(t) - 1)) ELSE t

\* str.strip()
Strip(t) == RStrip(LStrip(t))

\* str.lower() on the characters the model uses
LowerChar(c) == IF c = "A" THEN "a" ELSE IF c = "B" THEN "b" ELSE c
Lower(t) == [i \in 1..Len(t) |-> LowerChar(t[i])]

\* Python's "needle in hay" for strings
Contains(hay, needle) ==
  \E i \in 0..(Len(hay) - Len(needle)) :
     SubSeq(hay, i + 1, i + Len(needle)) = needle

(***************************************************************************)
(* The saved connections and the Data Provider's static data                *)
(***************************************************************************)
\* rows_per_page
rows_per_page == 10

\* TABLE_WINDOW_DEFAULT is 20; get_table_window_size() is max(5, rows - 6)
\* for a terminal of that many rows.  WindowSize is its minimum, the size
\* a session starts with.
WindowSize == 5

\* The connection descriptors load_saved_connections() may return: two
\* row-oriented engines that both hold an object p.a, and a document engine.
Pg1 == [name |-> "pg1", db_type |-> "postgres"]
Pg2 == [name |-> "pg2", db_type |-> "postgres"]
Mg == [name |-> "mg", db_type |-> "mongodb"]
Mg1 == [name |-> "mg1", db_type |-> "mongodb"]
\* A connection with more objects than the smallest window shows
Pg6 == [name |-> "pg6", db_type |-> "postgres"]

\* What the object listing of a connection returns: (schema, name, size),
\* sorted by size descending as the listing query orders it.
ProviderTables(cfg) ==
  IF cfg.name = "pg1"
  THEN << << <<"p">>, <<"a">>, 300 >>, << <<"p">>, <<"B">>, 20 >> >>
  ELSE IF cfg.name = "pg2" THEN << << <<"p">>, <<"a">>, 50 >> >>
  ELSE IF cfg.name = "pg3" THEN << << <<"p">>, <<"a">>, 40 >> >>
  ELSE IF cfg.name = "mg1" THEN << << Empty, <<"a">>, 70 >> >>
  ELSE IF cfg.name = "pg6"
  THEN << << <<"p">>, <<"a">>, 60 >>, << <<"p">>, <<"b">>, 50 >>,
          << <<"p">>, <<"c">>, 40 >>, << <<"p">>, <<"d">>, 30 >>,
          << <<"p">>, <<"e">>, 20 >>, << <<"p">>, <<"f">>, 10 >> >>
  ELSE << << Empty, <<"a">>, 70 >>, << Empty, <<"B">>, 7 >> >>

\* The filter texts the provider's data distinguishes.
GoodWhere == <<"w">>
BadWhere == <<"x">>
GoodOrder == <<"o">>

\* Number of rows of object `name` on a connection (all rows / rows
\* matching the filter GoodWhere).
ProviderRowCount(cfg, name, filtered) ==
  IF cfg.name = "pg1" /\ name = <<"a">> THEN (IF filtered THEN 1 ELSE 3)
  ELSE IF cfg.name = "pg1" THEN (IF filtered THEN 25 ELSE 35)
  ELSE IF cfg.name = "pg2" THEN (IF filtered THEN 2 ELSE 12)
  ELSE IF name = <<"a">> THEN (IF filtered THEN 11 ELSE 21)
  ELSE (IF filtered THEN 2 ELSE 7)

\* Column count of every result set
NumColumns == 2

Keys ==
  { << <<"p">>, <<"a">> >>, << <<"p">>, <<"B">> >>,
    << Empty, <<"a">> >>, << Empty, <<"B">> >> }

(***************************************************************************)
(* Dictionaries                                                             *)
(***************************************************************************)
EmptyDict == [k \in {} |-> Empty]
DictGet(d, k, default) == IF k \in DOMAIN d THEN d[k] ELSE default
DictSet(d, k, v) == [x \in (DOMAIN d) \cup {k} |-> IF x = k THEN v ELSE d[x]]
DictDel_all(d, k) == EmptyDict
DictDel(d, k) == [x \in (DOMAIN d) \ {k} |-> d[x]]

NoQuery == [kind |-> "none"]
NoConnect == [closed |-> -1, open |-> {}, ok |-> FALSE]

VARIABLES
  connections, inputs,
  tables, all_tables, table_details, rows, columns,
  selected_conn_idx, selected_table_idx, active_column,
  table_offset, last_table_click,
  rows_scroll_offset, total_rows_count,
  current_where_clause, table_where_clauses,
  current_order_by_clause, table_order_by_clauses,
  where_buffer, order_by_buffer,
  table_search_filter, table_search_buffer,
  sql_editor_mode, sql_editor_buffer, sql_query_history, sql_history_index,
  sql_query_results, sql_query_error,
  active_conn, active_conn_idx, active_adapter,
  focus, phase, result,
  window_size, update_checked,
  openHandles, lastConnect, closedAtExit, lastCount, lastFetch, lastEvent, steps,
  carried, lastStep

vars ==
  << connections, inputs,
     tables, all_tables, table_details, rows, columns,
     selected_conn_idx, selected_table_idx, active_column,
     table_offset, last_table_click,
     rows_scroll_offset, total_rows_count,
     current_where_clause, table_where_clauses,
     current_order_by_clause, table_order_by_clauses,
     where_buffer, order_by_buffer,
     table_search_filter, table_search_buffer,
     sql_editor_mode, sql_editor_buffer, sql_query_history, sql_history_index,
     sql_query_results, sql_query_error,
     active_conn, active_conn_idx, active_adapter,
     focus, phase, result,
     window_size, update_checked,
     openHandles, lastConnect, closedAtExit, lastCount, lastFetch, lastEvent, steps,
     carried, lastStep >>

\* The session state as one record, the form the handlers work on.  The
\* ghosts lastCount, lastFetch and lastEvent describe the event being
\* processed: the count and fetch queries it has issued and its name.
\* The other ghosts: openHandles counts the handles the provider holds open
\* per connection, lastConnect describes the last connect attempt,
\* closedAtExit tells whether the finally block closed a handle, and steps
\* counts the page-forward actions that followed the last WHERE commit.
State ==
  [ tables |-> tables, all_tables |-> all_tables,
    table_details |-> table_details, rows |-> rows, columns |-> columns,
    selected_conn_idx |-> selected_conn_idx,
    selected_table_idx |-> selected_table_idx,
    active_column |-> active_column,
    table_offset |-> table_offset, last_table_click |-> last_table_click,
    rows_scroll_offset |-> rows_scroll_offset,
    total_rows_count |-> total_rows_count,
    current_where_clause |-> current_where_clause,
    table_where_clauses |-> table_where_clauses,
    current_order_by_clause |-> current_order_by_clause,
    table_order_by_clauses |-> table_order_by_clauses,
    where_buffer |-> where_buffer, order_by_buffer |-> order_by_buffer,
    table_search_filter |-> table_search_filter,
    table_search_buffer |-> table_search_buffer,
    sql_editor_mode |-> sql_editor_mode,
    sql_editor_buffer |-> sql_editor_buffer,
    sql_query_history |-> sql_query_history,
    sql_history_index |-> sql_history_index,
    sql_query_results |-> sql_query_results,
    sql_query_error |-> sql_query_error,
    active_conn |-> active_conn, active_conn_idx |-> active_conn_idx,
    active_adapter |-> active_adapter,
    focus |-> focus, phase |-> phase, result |-> result,
    window_size |-> window_size, update_checked |-> update_checked,
    openHandles |-> openHandles, lastConnect |-> lastConnect,
    closedAtExit |-> closedAtExit, steps |-> steps, carried |-> carried,
    lastStep |-> lastStep, listed |-> FALSE, item |-> None,
    left |-> FALSE, pair |-> FALSE, toggled |-> FALSE,
    connect |-> "none", pushed |-> << >>, queried |-> FALSE,
    drawn |-> "-",
    lastCount |-> NoQuery, lastFetch |-> NoQuery, lastEvent |-> "-",
    exc |-> FALSE, exit |-> "", ret |-> FALSE ]

(***************************************************************************)
(* The Data Provider                                                        *)
(***************************************************************************)
\* adapter.close(conn): the provider releases the handle.
AdapterClose(S, h) ==
  [S EXCEPT !.openHandles = [S.openHandles EXCEPT ![h] = @ - 1]]

OpenHandleSet(S) == {h \in DOMAIN S.openHandles : S.openHandles[h] > 0}

\* connect(cfg) succeeding: the provider hands out a new handle.  The ghost
\* lastConnect records the handle set_active_connection closed beforehand
\* and the handles that were still open when connect was called.
ProviderConnect(S, idx, closed) ==
  [S EXCEPT !.lastConnect = [closed |-> closed, open |-> OpenHandleSet(S), ok |-> TRUE],
            !.connect = "ok",
            !.openHandles = [S.openHandles EXCEPT ![idx] = @ + 1]]

\* connect(cfg) raising: no handle is handed out.
ProviderConnectFail(S, idx, closed) ==
  [S EXCEPT !.lastConnect = [closed |-> closed, open |-> OpenHandleSet(S), ok |-> FALSE],
            !.connect = "failed"]

\* Whether the engine accepts a WHERE / ORDER BY text (an empty text is not
\* appended to the query at all).
ProviderAccepts(where, order_by) ==
  /\ Strip(where) \in {Empty, GoodWhere}
  /\ Strip(order_by) \in {Empty, GoodOrder}

\* Rows a count query reports for object `name` on connection idx.
ProviderCount(idx, name, where) ==
  ProviderRowCount(connections[idx + 1], name, Strip(where) = GoodWhere)

\* Rows a windowed fetch returns.
ProviderFetch(idx, name, where, limit, offset) ==
  Min(limit, Max(0, ProviderCount(idx, name, where) - offset))

\* listColumns / listIndexes of an object, as the display strings built from
\* them.
ProviderColumns(db_type) ==
  IF db_type = "mongodb" THEN << "_id (dynamic)", "v (dynamic)" >>
  ELSE << "id (int)", "v (text)" >>
ProviderIndexes(db_type) ==
  IF db_type = "mongodb" THEN << "_id_: {'_id': 1}" >> ELSE << "a_pkey: btree" >>

\* The console texts the engine executes successfully.
GoodSql == <<"s">>
OtherSql == <<"t">>

(***************************************************************************)
(* Helpers of browse_connections_ui_once                                    *)
(***************************************************************************)
\* The three assignments clearing the connection without the one to
\* active_adapter.
NoConnectionState_keeps_adapter(S) ==
  [S EXCEPT !.active_conn = None, !.active_conn_idx = -1]

\* active_conn = None; active_conn_idx = -1; active_adapter = None
NoConnectionState(S) ==
  [S EXCEPT !.active_conn = None, !.active_conn_idx = -1, !.active_adapter = NoAdapter]

\* set_active_connection connecting to the next connection without closing
\* the handle it holds.
set_active_connection_keeps_handle(S, idx, connect_ok) ==
  IF idx < 0 \/ idx >= Len(connections) THEN [S EXCEPT !.ret = FALSE]
  ELSE IF S.active_conn # None /\ S.active_conn_idx = idx THEN [S EXCEPT !.ret = TRUE]
  ELSE
    IF connect_ok
    THEN [ProviderConnect(S, idx, None) EXCEPT
            !.active_adapter = connections[idx + 1].db_type,
            !.active_conn = idx,
            !.active_conn_idx = idx,
            !.ret = TRUE]
    ELSE [NoConnectionState(ProviderConnectFail(S, idx, None)) EXCEPT
            !.pushed = Append(@, "Connection error"),
            !.ret = FALSE]

\* set_active_connection without the early return for the connection that
\* is already open.
set_active_connection_reconnects(S, idx, connect_ok) ==
  IF idx < 0 \/ idx >= Len(connections) THEN [S EXCEPT !.ret = FALSE]
  ELSE
    LET closing == S.active_conn # None /\ S.active_adapter # NoAdapter
        closed == IF closing THEN S.active_conn ELSE None
        S1 == IF closing
              THEN NoConnectionState(AdapterClose(S, S.active_conn))
              ELSE S
    IN IF connect_ok
       THEN [ProviderConnect(S1, idx, closed) EXCEPT
               !.active_adapter = connections[idx + 1].db_type,
               !.active_conn = idx,
               !.active_conn_idx = idx,
               !.ret = TRUE]
       ELSE [NoConnectionState(ProviderConnectFail(S1, idx, closed)) EXCEPT
               !.pushed = Append(@, "Connection error"),
               !.ret = FALSE]

\* set_active_connection dropping the persisted clauses when it connects.
set_active_connection_clears_filters(S, idx, connect_ok) ==
  IF idx < 0 \/ idx >= Len(connections) THEN [S EXCEPT !.ret = FALSE]
  ELSE IF S.active_conn # None /\ S.active_conn_idx = idx THEN [S EXCEPT !.ret = TRUE]
  ELSE
    LET closing == S.active_conn # None /\ S.active_adapter # NoAdapter
        closed == IF closing THEN S.active_conn ELSE None
        S0 == [S EXCEPT !.table_where_clauses = EmptyDict,
                        !.table_order_by_clauses = EmptyDict]
        S1 == IF closing
              THEN NoConnectionState(AdapterClose(S0, S.active_conn))
              ELSE S0
    IN IF connect_ok
       THEN [ProviderConnect(S1, idx, closed) EXCEPT
               !.active_adapter = connections[idx + 1].db_type,
               !.active_conn = idx,
               !.active_conn_idx = idx,
               !.ret = TRUE]
       ELSE [NoConnectionState(ProviderConnectFail(S1, idx, closed)) EXCEPT
               !.pushed = Append(@, "Connection error"),
               !.ret = FALSE]

set_active_connection(S, idx, connect_ok) ==
  IF idx < 0 \/ idx >= Len(connections) THEN [S EXCEPT !.ret = FALSE]
  ELSE IF S.active_conn # None /\ S.active_conn_idx = idx THEN [S EXCEPT !.ret = TRUE]
  ELSE
    LET closing == S.active_conn # None /\ S.active_adapter # NoAdapter
        closed == IF closing THEN S.active_conn ELSE None
        S1 == IF closing
              THEN NoConnectionState(AdapterClose(S, S.active_conn))
              ELSE S
    IN IF connect_ok
       THEN [ProviderConnect(S1, idx, closed) EXCEPT
               !.active_adapter = connections[idx + 1].db_type,
               !.active_conn = idx,
               !.active_conn_idx = idx,
               !.ret = TRUE]
       ELSE [NoConnectionState(ProviderConnectFail(S1, idx, closed)) EXCEPT
               !.pushed = Append(@, "Connection error"),
               !.ret = FALSE]

\* max(5, rows - 6) of the terminal's rows, as they are when the event
\* arrives
get_table_window_size == window_size

\* The label the search filter is matched against.
TableLabel(t) == IF t[1] # Empty THEN t[1] \o <<".">> \o t[2] ELSE t[2]

\* The early returns of load_tables_for_connection leaving the rows of the
\* data panel as they were.
NoTables_keeps_rows(S) ==
  [S EXCEPT !.tables = << >>, !.selected_table_idx = -1]

\* The early returns of load_tables_for_connection (lines 170-174, 176-180,
\* 182-186).
NoTables(S) ==
  [S EXCEPT !.tables = << >>, !.selected_table_idx = -1, !.rows = 0, !.columns = 0]

\* The list comprehension of the search filter comparing the texts as they
\* are, without lower().
RECURSIVE FilterTables_case_sensitive(_, _)
FilterTables_case_sensitive(ts, f) ==
  IF ts = << >> THEN << >>
  ELSE IF Contains(TableLabel(Head(ts)), f)
       THEN << Head(ts) >> \o FilterTables_case_sensitive(Tail(ts), f)
       ELSE FilterTables_case_sensitive(Tail(ts), f)

\* The list comprehension of the search filter: the matching objects, in
\* the order of the list.
RECURSIVE FilterTables(_, _)
FilterTables(ts, f) ==
  IF ts = << >> THEN << >>
  ELSE IF Contains(Lower(TableLabel(Head(ts))), Lower(f))
       THEN << Head(ts) >> \o FilterTables(Tail(ts), f)
       ELSE FilterTables(Tail(ts), f)

\* load_tables_for_connection leaving selected_table_idx as it was when the
\* reloaded list is not empty.
load_tables_for_connection_keeps_index(S, connect_ok, list_ok) ==
  IF S.selected_conn_idx < 0 \/ S.selected_conn_idx >= Len(connections)
  THEN NoTables(S)
  ELSE
    LET S1 == set_active_connection(S, S.selected_conn_idx, connect_ok) IN
    IF ~S1.ret THEN NoTables(S1)
    ELSE IF S1.active_adapter = NoAdapter \/ S1.active_conn = None THEN NoTables(S1)
    ELSE
      LET cfg == connections[S1.selected_conn_idx + 1]
          listing == ProviderTables(cfg)
      IN
      IF cfg.db_type # "mongodb" /\ ~list_ok
      THEN [S1 EXCEPT !.exc = TRUE, !.listed = TRUE]
      ELSE
        LET res == IF cfg.db_type = "mongodb" /\ ~list_ok THEN << >> ELSE listing
            local_all_tables == res
            new_tables == IF S1.table_search_filter # Empty
                          THEN FilterTables(local_all_tables, S1.table_search_filter)
                          ELSE local_all_tables
        IN [S1 EXCEPT !.tables = new_tables,
                      !.selected_table_idx = IF new_tables # << >> THEN @ ELSE -1,
                      !.rows = 0,
                      !.columns = 0,
                      !.table_offset = 0,
                      !.table_details = EmptyDict,
                      !.listed = TRUE]

\* all_tables is assigned without a nonlocal declaration, so the assignment
\* binds a local and the session's all_tables is left as it was.
load_tables_for_connection(S, connect_ok, list_ok) ==
  IF S.selected_conn_idx < 0 \/ S.selected_conn_idx >= Len(connections)
  THEN NoTables(S)
  ELSE
    LET S1 == set_active_connection(S, S.selected_conn_idx, connect_ok) IN
    IF ~S1.ret THEN NoTables(S1)
    ELSE IF S1.active_adapter = NoAdapter \/ S1.active_conn = None THEN NoTables(S1)
    ELSE
      LET cfg == connections[S1.selected_conn_idx + 1]
          listing == ProviderTables(cfg)
      IN
      IF cfg.db_type # "mongodb" /\ ~list_ok
      THEN [S1 EXCEPT !.exc = TRUE, !.listed = TRUE]
      ELSE
        LET res == IF cfg.db_type = "mongodb" /\ ~list_ok THEN << >> ELSE listing
            local_all_tables == res
            new_tables == IF S1.table_search_filter # Empty
                          THEN FilterTables(local_all_tables, S1.table_search_filter)
                          ELSE local_all_tables
        IN [S1 EXCEPT !.tables = new_tables,
                      !.selected_table_idx = IF new_tables # << >> THEN 0 ELSE -1,
                      !.rows = 0,
                      !.columns = 0,
                      !.table_offset = 0,
                      !.table_details = EmptyDict,
                      !.listed = TRUE]

load_table_details(S, schema, table, details_ok) ==
  IF S.active_conn = None \/ S.active_adapter = NoAdapter THEN S
  ELSE IF <<schema, table>> \in DOMAIN S.table_details THEN S
  ELSE
    LET cfg == connections[S.active_conn_idx + 1] IN
    IF cfg.db_type # "mongodb" /\ ~details_ok THEN [S EXCEPT !.exc = TRUE]
    ELSE
      LET cols == IF cfg.db_type = "mongodb" /\ ~details_ok THEN << >>
                  ELSE ProviderColumns(cfg.db_type)
          idxs == IF cfg.db_type = "mongodb" /\ ~details_ok THEN << >>
                  ELSE ProviderIndexes(cfg.db_type)
      IN [S EXCEPT !.table_details =
            DictSet(S.table_details, <<schema, table>>,
                    [columns |-> cols, indexes |-> idxs])]

NoResults == [present |-> FALSE, rows |-> 0, columns |-> 0]
NoError == "None"
MaxHistory == 50

\* execute_sql_query sending a blank text to the engine.
execute_sql_query_sends_blank(S, query) ==
  IF S.active_conn = None \/ S.active_adapter = NoAdapter
  THEN [S EXCEPT !.sql_query_error = "No database connection",
                 !.sql_query_results = NoResults]
  ELSE IF S.active_adapter = "mongodb" \/ Strip(query) \in {GoodSql, OtherSql}
  THEN
    LET query_clean == Strip(query)
        h == S.sql_query_history
        h1 == IF query_clean # Empty /\ (h = << >> \/ h[Len(h)] # query_clean)
              THEN Append(h, query_clean) ELSE h
        h2 == IF Len(h1) > MaxHistory THEN Tail(h1) ELSE h1
    IN [S EXCEPT !.sql_query_results =
                    IF S.active_adapter = "mongodb"
                    THEN [present |-> TRUE, rows |-> 0, columns |-> 0]
                    ELSE [present |-> TRUE, rows |-> 1, columns |-> NumColumns],
                 !.sql_query_error = NoError,
                 !.sql_query_history = h2,
                 !.queried = TRUE,
                 !.pushed = Append(@, "Query executed successfully")]
  ELSE [S EXCEPT !.sql_query_error = "query error",
                 !.sql_query_results = NoResults,
                 !.queried = TRUE,
                 !.pushed = Append(@, "Query error")]

\* execute_sql_query appending every executed text to the history, equal to
\* the newest entry or not.
execute_sql_query_keeps_duplicates(S, query) ==
  IF S.active_conn = None \/ S.active_adapter = NoAdapter
  THEN [S EXCEPT !.sql_query_error = "No database connection",
                 !.sql_query_results = NoResults]
  ELSE IF Strip(query) = Empty
  THEN [S EXCEPT !.sql_query_error = "Empty query",
                 !.sql_query_results = NoResults]
  ELSE IF S.active_adapter = "mongodb" \/ Strip(query) \in {GoodSql, OtherSql}
  THEN
    LET query_clean == Strip(query)
        h == S.sql_query_history
        h1 == IF query_clean # Empty THEN Append(h, query_clean) ELSE h
        h2 == IF Len(h1) > MaxHistory THEN Tail(h1) ELSE h1
    IN [S EXCEPT !.sql_query_results =
                    IF S.active_adapter = "mongodb"
                    THEN [present |-> TRUE, rows |-> 0, columns |-> 0]
                    ELSE [present |-> TRUE, rows |-> 1, columns |-> NumColumns],
                 !.sql_query_error = NoError,
                 !.sql_query_history = h2,
                 !.queried = TRUE,
                 !.pushed = Append(@, "Query executed successfully")]
  ELSE [S EXCEPT !.sql_query_error = "query error",
                 !.sql_query_results = NoResults,
                 !.queried = TRUE,
                 !.pushed = Append(@, "Query error")]

\* execute_sql_query leaving the stored result set as it is when the text
\* is blank.
execute_sql_query_keeps_results(S, query) ==
  IF S.active_conn = None \/ S.active_adapter = NoAdapter
  THEN [S EXCEPT !.sql_query_error = "No database connection",
                 !.sql_query_results = NoResults]
  ELSE IF Strip(query) = Empty
  THEN [S EXCEPT !.sql_query_error = "Empty query"]
  ELSE IF S.active_adapter = "mongodb" \/ Strip(query) \in {GoodSql, OtherSql}
  THEN
    LET query_clean == Strip(query)
        h == S.sql_query_history
        h1 == IF query_clean # Empty /\ (h = << >> \/ h[Len(h)] # query_clean)
              THEN Append(h, query_clean) ELSE h
        h2 == IF Len(h1) > MaxHistory THEN Tail(h1) ELSE h1
    IN [S EXCEPT !.sql_query_results =
                    IF S.active_adapter = "mongodb"
                    THEN [present |-> TRUE, rows |-> 0, columns |-> 0]
                    ELSE [present |-> TRUE, rows |-> 1, columns |-> NumColumns],
                 !.sql_query_error = NoError,
                 !.sql_query_history = h2,
                 !.queried = TRUE,
                 !.pushed = Append(@, "Query executed successfully")]
  ELSE [S EXCEPT !.sql_query_error = "query error",
                 !.sql_query_results = NoResults,
                 !.queried = TRUE,
                 !.pushed = Append(@, "Query error")]

execute_sql_query(S, query) ==
  IF S.active_conn = None \/ S.active_adapter = NoAdapter
  THEN [S EXCEPT !.sql_query_error = "No database connection",
                 !.sql_query_results = NoResults]
  ELSE IF Strip(query) = Empty
  THEN [S EXCEPT !.sql_query_error = "Empty query",
                 !.sql_query_results = NoResults]
  ELSE IF S.active_adapter = "mongodb" \/ Strip(query) \in {GoodSql, OtherSql}
  THEN
    LET query_clean == Strip(query)
        h == S.sql_query_history
        h1 == IF query_clean # Empty /\ (h = << >> \/ h[Len(h)] # query_clean)
              THEN Append(h, query_clean) ELSE h
        h2 == IF Len(h1) > MaxHistory THEN Tail(h1) ELSE h1
    IN [S EXCEPT !.sql_query_results =
                    IF S.active_adapter = "mongodb"
                    THEN [present |-> TRUE, rows |-> 0, columns |-> 0]
                    ELSE [present |-> TRUE, rows |-> 1, columns |-> NumColumns],
                 !.sql_query_error = NoError,
                 !.sql_query_history = h2,
                 !.queried = TRUE,
                 !.pushed = Append(@, "Query executed successfully")]
  ELSE [S EXCEPT !.sql_query_error = "query error",
                 !.sql_query_results = NoResults,
                 !.queried = TRUE,
                 !.pushed = Append(@, "Query error")]

\* load_rows_for_table(where_clause, reset_offset); has_where is FALSE when
\* the where_clause argument is left at its default None.
load_rows_for_table(S, has_where, where_clause, reset_offset) ==
  IF \/ S.active_conn = None
     \/ S.active_adapter = NoAdapter
     \/ S.selected_table_idx < 0
     \/ S.selected_table_idx >= Len(S.tables)
  THEN [S EXCEPT !.rows = 0, !.columns = 0, !.total_rows_count = 0]
  ELSE
    LET t == S.tables[S.selected_table_idx + 1]
        schema == t[1]
        table == t[2]
        key == <<schema, table>>
        where == IF has_where THEN where_clause
                 ELSE DictGet(S.table_where_clauses, key, Empty)
        \* current_order_by_clause is a local of load_rows_for_table
        local_order_by == DictGet(S.table_order_by_clauses, key, Empty)
        offset == IF reset_offset THEN 0 ELSE S.rows_scroll_offset
        S1 == [S EXCEPT !.current_where_clause = where,
                        !.table_where_clauses =
                           IF has_where THEN DictSet(@, key, where_clause) ELSE @,
                        !.where_buffer = where,
                        !.order_by_buffer = local_order_by,
                        !.rows_scroll_offset = offset]
        cfg == connections[S.active_conn_idx + 1]
    IN
    IF cfg.db_type = "mongodb"
    THEN
      \* a filter that does not parse as JSON is treated as the empty filter
      LET filter == IF Strip(where) = GoodWhere THEN where ELSE Empty
          n == ProviderFetch(S.active_conn_idx, table, filter, rows_per_page, offset)
      IN [S1 EXCEPT
            !.total_rows_count = ProviderCount(S.active_conn_idx, table, filter),
            !.rows = n,
            !.columns = IF n = 0 THEN 0 ELSE NumColumns,
            !.pushed = @ \o << "MongoDB", "Query executed" >>,
            !.lastCount = [kind |-> "count", conn |-> S.active_conn_idx,
                           schema |-> Empty, table |-> table,
                           where |-> IF Strip(where) # Empty THEN where ELSE Empty],
            !.lastFetch = [kind |-> "fetch", conn |-> S.active_conn_idx,
                           schema |-> Empty, table |-> table,
                           where |-> IF Strip(where) # Empty THEN where ELSE Empty,
                           order_by |-> Empty,
                           limit |-> rows_per_page, offset |-> offset]]
    ELSE
      LET qualified == schema # Empty /\ cfg.db_type \notin {"sqlite", "clickhouse"}
          qschema == IF qualified THEN schema ELSE Empty
          qwhere == IF Strip(where) # Empty THEN where ELSE Empty
          qorder == IF Strip(local_order_by) # Empty THEN local_order_by ELSE Empty
          count_query == [kind |-> "count", conn |-> S.active_conn_idx,
                          schema |-> qschema, table |-> table, where |-> qwhere]
          base_query == [kind |-> "fetch", conn |-> S.active_conn_idx,
                         schema |-> qschema, table |-> table, where |-> qwhere,
                         order_by |-> qorder,
                         limit |-> rows_per_page, offset |-> offset]
          S2 == [S1 EXCEPT !.lastCount = count_query]
      IN
      IF ~ProviderAccepts(qwhere, Empty) THEN [S2 EXCEPT !.exc = TRUE]
      ELSE
        LET S3 == [S2 EXCEPT
                     !.total_rows_count = ProviderCount(S.active_conn_idx, table, qwhere),
                     !.pushed = Append(@, "SQL"),
                     !.lastFetch = base_query]
        IN IF ~ProviderAccepts(qwhere, qorder) THEN [S3 EXCEPT !.exc = TRUE]
           ELSE [S3 EXCEPT
                   !.rows = ProviderFetch(S.active_conn_idx, table, qwhere,
                                          rows_per_page, offset),
                   !.columns = NumColumns,
                   !.pushed = Append(@, "Query executed")]

(***************************************************************************)
(* Rendering                                                                *)
(***************************************************************************)
\* The "line -> object index" map render_tables builds (None is -1).
RECURSIVE TableLines(_, _, _)
TableLines(S, i, end) ==
  IF i >= end THEN << >>
  ELSE
    LET t == S.tables[i + 1]
        key == <<t[1], t[2]>>
        cols == IF key \in DOMAIN S.table_details
                THEN S.table_details[key].columns ELSE << >>
        idxs == IF key \in DOMAIN S.table_details
                THEN S.table_details[key].indexes ELSE << >>
        ncol == IF cols # << >> THEN 1 + Len(cols) ELSE 0
        nidx == IF idxs # << >> THEN 1 + Len(idxs) ELSE 0
    IN [j \in 1..(1 + ncol + nidx) |-> i] \o TableLines(S, i + 1, end)

\* table_offset as render_tables clamps it
RenderTableOffset(S) ==
  IF S.tables = << >> THEN S.table_offset
  ELSE Min(S.table_offset, Max(0, Len(S.tables) - S.window_size))

table_line_map(S) ==
  IF S.tables = << >> THEN << None, None >>
  ELSE LET start == RenderTableOffset(S)
           end == Min(Len(S.tables), start + S.window_size)
       IN << None >> \o TableLines(S, start, end)

\* Number of decimal digits of n >= 0, the length of str(n)
RECURSIVE DigitLen(_)
DigitLen(n) == IF n < 10 THEN 1 ELSE 1 + DigitLen(n \div 10)

\* len(title_text) as rows_mouse_handler computes it
MouseTitleLen(S) ==
  LET start_row == S.rows_scroll_offset + 1
      end_row == Min(S.rows_scroll_offset + S.rows, S.total_rows_count)
      page_info == IF S.total_rows_count > 0
                   THEN 7 + DigitLen(start_row) + 1 + DigitLen(end_row) + 4
                        + DigitLen(S.total_rows_count)
                   ELSE 10
  IN 8 + page_info + 3

\* The header line of render_rows as its fragments, each with the element
\* it draws and its length in characters: the title, the previous-page
\* arrow (a blank when there is no previous page), a blank, the next-page
\* arrow (or a blank), two blanks, "[ CSV ]", a blank and "[ JSON ]".
render_rows_header(S) ==
  LET start_row == S.rows_scroll_offset + 1
      end_row == Min(S.rows_scroll_offset + S.rows, S.total_rows_count)
      page_info == IF S.total_rows_count > 0
                   THEN 5 + DigitLen(start_row) + 1 + DigitLen(end_row) + 4
                        + DigitLen(S.total_rows_count)
                   ELSE 7
      can_prev == S.rows_scroll_offset > 0
      can_next == S.rows_scroll_offset + rows_per_page < S.total_rows_count
  IN << [element |-> "title", len |-> 6 + page_info + 3],
        [element |-> IF can_prev THEN "prev" ELSE "blank", len |-> 1],
        [element |-> "blank", len |-> 1],
        [element |-> IF can_next THEN "next" ELSE "blank", len |-> 1],
        [element |-> "blank", len |-> 2],
        [element |-> "csv", len |-> 7],
        [element |-> "blank", len |-> 1],
        [element |-> "json", len |-> 8] >>

\* The element a line of fragments shows at column x ("blank" beyond its
\* end).
RECURSIVE ElementAt(_, _)
ElementAt(fragments, x) ==
  IF fragments = << >> \/ x < 0 THEN "blank"
  ELSE IF x < Head(fragments).len THEN Head(fragments).element
  ELSE ElementAt(Tail(fragments), x - Head(fragments).len)

\* What the data panel shows at column x of line y: an element of the
\* header on line 0.
DrawnAt(S, x, y) ==
  IF y = 0 THEN ElementAt(render_rows_header(S), x) ELSE "blank"

(***************************************************************************)
(* Key bindings                                                             *)
(***************************************************************************)
\* The ghost lastEvent names the event processed last, for the events the
\* scenario observes.
PageTags == {"page:next", "page:prev"}
\* The events that reload the object list, and those that select an object
ReloadTags ==
  {"enter:search", "escape:search", "c-f", "conn:scroll", "conn:click"}
SelectTags == {"up:table", "tables:scroll", "tables:click"}

\* last_table_click before any click
NoClick == << <<"None">>, <<"None">> >>

\* The ghost lastStep describes the event processed last: the focus, the
\* selection and the console mode it found, whether it changed the state of
\* the three panels, whether it issued an object listing, and the list item
\* a click resolved to; the state the current run of focus-cycle presses
\* started from and their number; and the focus the console was entered
\* from; for a click on an object line, its place in the run of left clicks
\* on the same object each less than the double-click window after the one
\* before (0 when the run is not known), whether it toggled the details and
\* whether it left the metadata cache as it was; and the number of toggles
\* of the same object in succession, that object, and the cache before the
\* first of them; the outcome of the connect the event made, if any, and
\* that of the event before, and the messages it pushed to the status log;
\* the history cursor, the length of the history and whether a result set
\* was held when the event arrived, whether it left the history as it was
\* and whether it sent a query to the provider; and whether the editor's
\* text is a history entry loaded by the up key and not typed over since.
\* and the viewport offset of the object list the handler left for the
\* redraw, and whether the redraw called check_for_updates(); and, for a
\* click on the data panel, the element drawn where the click landed; and
\* the handle the event found open and whether it left the provider's open
\* handles as they were; and the WHERE or ORDER BY clause an enter press
\* stored last, with the key it was stored under and the index of the
\* connection that was active, until an enter or escape press that stores
\* none or clears one.
\* S is the state the handler left, the variables are the state it found.
NoStep ==
  [ focus |-> "-", conn |-> None, table |-> None, column |-> None,
    console |-> FALSE,
    changed |-> FALSE, listed |-> FALSE, item |-> None,
    tabs_start |-> "-", tabs_n |-> 0, entry |-> "-",
    run |-> 0, toggled |-> FALSE, kept |-> TRUE,
    toggles |-> 0, toggle_key |-> NoClick, before |-> EmptyDict,
    connect |-> "none", prev_connect |-> "none", pushed |-> << >>,
    cursor |-> None, hlen |-> 0, hist_kept |-> TRUE, had_results |-> FALSE,
    queried |-> FALSE, loaded |-> FALSE,
    drawn_from |-> None, update_call |-> FALSE, drawn |-> "-",
    had_conn |-> None, handles_kept |-> TRUE,
    commit |-> [kind |-> "none", conn |-> None, key |-> << >>, text |-> Empty] ]

MaxTabs == 6
MaxRun == 4

StepOf(S, ev) ==
  LET seen == "step" \in inputs.observed
      tabbed == "tabs" \in inputs.observed /\ ev = "tab"
      continued == tabbed /\ lastStep.tabs_n \in 1..(MaxTabs - 1)
      clicked == "clicks" \in inputs.observed /\ ev = "tables:click"
      history == "history" \in inputs.observed
      again == /\ clicked /\ S.toggled
               /\ lastStep.toggles = 1
               /\ lastStep.toggle_key = S.last_table_click
      commits == "commits" \in inputs.observed
      stored == /\ commits /\ ~S.exc
                /\ ev \in {"enter:where", "enter:order_by"}
                /\ S.tables # << >> /\ S.selected_table_idx >= 0
                /\ S.tables[S.selected_table_idx + 1][1] # Empty
                /\ S.tables[S.selected_table_idx + 1][2] # Empty
  IN
  [ focus |-> IF seen THEN focus ELSE "-",
    conn |-> IF seen THEN selected_conn_idx ELSE None,
    table |-> IF seen THEN selected_table_idx ELSE None,
    column |-> IF seen THEN active_column ELSE None,
    console |-> seen /\ sql_editor_mode,
    changed |-> /\ seen
                /\ \/ S.selected_conn_idx # selected_conn_idx
                   \/ S.selected_table_idx # selected_table_idx
                   \/ S.tables # tables
                   \/ S.table_search_filter # table_search_filter
                   \/ S.rows_scroll_offset # rows_scroll_offset
                   \/ S.rows # rows
                   \/ S.table_details # table_details,
    listed |-> (seen \/ "listing" \in inputs.observed) /\ S.listed,
    item |-> IF seen THEN S.item ELSE None,
    tabs_start |-> IF continued THEN lastStep.tabs_start
                   ELSE IF tabbed THEN focus ELSE "-",
    tabs_n |-> IF continued THEN lastStep.tabs_n + 1
               ELSE IF tabbed THEN 1 ELSE 0,
    entry |-> IF "entry" \notin inputs.observed THEN "-"
              ELSE IF ev = "c-e" /\ ~sql_editor_mode THEN focus
              ELSE lastStep.entry,
    run |-> IF ~clicked \/ ~S.left THEN 0
            ELSE IF ~S.pair THEN 1
            ELSE IF lastStep.run = 0 THEN 0
            ELSE Min(MaxRun, lastStep.run + 1),
    toggled |-> clicked /\ S.toggled,
    kept |-> ~clicked \/ S.table_details = table_details,
    toggles |-> IF ~clicked THEN 0
                ELSE IF again THEN 2
                ELSE IF S.toggled THEN 1
                ELSE lastStep.toggles,
    toggle_key |-> IF ~clicked THEN NoClick
                   ELSE IF S.toggled THEN S.last_table_click
                   ELSE lastStep.toggle_key,
    before |-> IF ~clicked THEN EmptyDict
               ELSE IF again THEN lastStep.before
               ELSE IF S.toggled THEN table_details
               ELSE lastStep.before,
    connect |-> IF "connect" \in inputs.observed THEN S.connect ELSE "none",
    prev_connect |-> IF "connect" \in inputs.observed THEN lastStep.connect
                     ELSE "none",
    pushed |-> IF "connect" \in inputs.observed THEN S.pushed ELSE << >>,
    cursor |-> IF history THEN sql_history_index ELSE None,
    hlen |-> IF history THEN Len(sql_query_history) ELSE 0,
    hist_kept |-> ~history \/ S.sql_query_history = sql_query_history,
    had_results |-> history /\ sql_query_results.present,
    queried |-> history /\ S.queried,
    loaded |-> /\ history
               /\ IF ev = "up:history" THEN S.sql_history_index >= 0
                  ELSE IF ev = "type" THEN FALSE
                  ELSE lastStep.loaded,
    drawn_from |-> IF "render" \in inputs.observed THEN S.table_offset ELSE None,
    update_call |-> FALSE,
    drawn |-> IF "header" \in inputs.observed THEN S.drawn ELSE "-",
    had_conn |-> IF "connect" \in inputs.observed THEN active_conn ELSE None,
    handles_kept |-> "connect" \notin inputs.observed \/ S.openHandles = openHandles,
    commit |-> IF stored
               THEN [ kind |-> IF ev = "enter:where" THEN "where" ELSE "order_by",
                      conn |-> S.active_conn_idx,
                      key |-> << S.tables[S.selected_table_idx + 1][1],
                                 S.tables[S.selected_table_idx + 1][2] >>,
                      text |-> IF ev = "enter:where" THEN S.current_where_clause
                               ELSE S.current_order_by_clause ]
               ELSE IF ~commits \/ ev \in { "enter:where", "enter:order_by",
                                            "escape:where", "escape:order_by",
                                            "escape:both" }
               THEN NoStep.commit
               ELSE lastStep.commit ]

\* The ghost steps counts the page-forward actions since the last apply of
\* a non-empty WHERE to a selected object, with nothing else in between.  The ghost carried is "changed" from
\* an event that selected another object or reloaded the list until the
\* next page navigation, and "carried" once that navigation started from an
\* offset other than 0.
Tag(S, ev) ==
  [S EXCEPT !.lastEvent = IF ev \in inputs.observed THEN ev ELSE "-",
            !.steps = IF "steps" \notin inputs.observed \/ S.exc THEN -1
                      ELSE IF /\ ev = "enter:where"
                              /\ S.current_where_clause # Empty
                              /\ S.active_conn # None
                              /\ S.selected_table_idx >= 0
                              /\ S.selected_table_idx < Len(S.tables)
                      THEN 0
                      ELSE IF ev = "page:next" /\ @ >= 0 THEN @ + 1
                      ELSE -1,
            !.carried = IF "selection" \notin inputs.observed \/ S.exc THEN "-"
                        ELSE IF ev \in PageTags
                        THEN IF @ = "changed" /\ rows_scroll_offset # 0
                             THEN "carried" ELSE "-"
                        ELSE IF ev \in ReloadTags
                                \/ /\ ev \in SelectTags
                                   /\ S.selected_table_idx # selected_table_idx
                        THEN "changed"
                        ELSE @,
            !.lastStep = StepOf(S, ev)]

\* (schema, table) of the selected object as the enter and escape bindings
\* read it, and whether "schema and table" is truthy
SelectedTable(S) ==
  IF S.tables # << >> /\ S.selected_table_idx >= 0
  THEN S.tables[S.selected_table_idx + 1] ELSE << Empty, Empty, 0 >>
HasSchemaAndTable(S) ==
  /\ S.tables # << >> /\ S.selected_table_idx >= 0
  /\ SelectedTable(S)[1] # Empty /\ SelectedTable(S)[2] # Empty
SelectedKey(S) == << SelectedTable(S)[1], SelectedTable(S)[2] >>

\* q
KeyQ(S) ==
  IF S.sql_editor_mode
  THEN Tag([S EXCEPT !.sql_editor_mode = FALSE, !.focus = "left"], "q:close")
  ELSE Tag([S EXCEPT !.exit = "quit"], "q:quit")

\* c-e
KeyCtrlE(S) ==
  Tag([S EXCEPT !.sql_editor_mode = TRUE, !.sql_history_index = -1,
                !.focus = "sql_editor"], "c-e")

\* tab
KeyTab(S) ==
  IF S.sql_editor_mode THEN Tag(S, "tab:noop")
  ELSE IF S.active_column = 2
  THEN IF S.focus = "order_by" THEN Tag([S EXCEPT !.focus = "where"], "tab")
       ELSE IF S.focus = "where"
       THEN Tag([S EXCEPT !.active_column = 0, !.focus = "left"], "tab")
       ELSE Tag([S EXCEPT !.focus = "order_by"], "tab")
  ELSE IF S.active_column = 1
  THEN IF S.focus = "search" THEN Tag([S EXCEPT !.focus = "tables"], "tab")
       ELSE Tag([S EXCEPT !.active_column = 2, !.focus = "order_by"], "tab")
  ELSE IF S.active_column = 0
  THEN Tag([S EXCEPT !.active_column = 1, !.focus = "search"], "tab")
  ELSE Tag(S, "tab:noop")

\* up navigating the lists also while the search or ORDER BY field has the
\* focus.
KeyUp_ignores_fields(S, has_focus) ==
  IF S.sql_editor_mode /\ ~has_focus
  THEN Tag([S EXCEPT !.exc = TRUE], "up:error")
  ELSE IF S.sql_editor_mode /\ S.focus = "sql_editor"
  THEN
    IF S.sql_query_history # << >>
    THEN
      LET current == Strip(S.sql_editor_buffer)
          h == S.sql_query_history
          h1 == IF S.sql_history_index < 0 /\ current # Empty
                   /\ (h = << >> \/ h[Len(h)] # current)
                THEN Append(h, current) ELSE h
          idx == Min(Len(h1) - 1, S.sql_history_index + 1)
      IN Tag([S EXCEPT !.sql_query_history = h1,
                       !.sql_history_index = idx,
                       !.sql_editor_buffer =
                          IF idx >= 0 THEN h1[Len(h1) - idx] ELSE @], "up:history")
    ELSE Tag(S, "up:noop")
  ELSE IF S.focus = "where" THEN Tag([S EXCEPT !.focus = "order_by"], "up:focus")
  ELSE IF S.active_column = 0 /\ connections # << >>
  THEN Tag([S EXCEPT !.selected_conn_idx = Max(0, @ - 1)], "up:conn")
  ELSE IF S.active_column = 1 /\ S.tables # << >>
  THEN LET sel == Max(0, S.selected_table_idx - 1) IN
       Tag([S EXCEPT !.selected_table_idx = sel,
                     !.table_offset = IF sel < @ THEN sel ELSE @], "up:table")
  ELSE Tag(S, "up:noop")

\* up moving the history cursor without stopping at the oldest entry.
KeyUp_unbounded(S, has_focus) ==
  IF S.sql_editor_mode /\ ~has_focus
  THEN Tag([S EXCEPT !.exc = TRUE], "up:error")
  ELSE IF S.sql_editor_mode /\ S.focus = "sql_editor"
  THEN
    IF S.sql_query_history # << >>
    THEN
      LET current == Strip(S.sql_editor_buffer)
          h == S.sql_query_history
          h1 == IF S.sql_history_index < 0 /\ current # Empty
                   /\ (h = << >> \/ h[Len(h)] # current)
                THEN Append(h, current) ELSE h
          idx == S.sql_history_index + 1
      IN Tag([S EXCEPT !.sql_query_history = h1,
                       !.sql_history_index = idx,
                       !.sql_editor_buffer =
                          IF idx >= 0 /\ idx < Len(h1) THEN h1[Len(h1) - idx] ELSE @], "up:history")
    ELSE Tag(S, "up:noop")
  ELSE IF S.focus = "where" THEN Tag([S EXCEPT !.focus = "order_by"], "up:focus")
  ELSE IF S.focus \in {"order_by", "search"} THEN Tag(S, "up:noop")
  ELSE IF S.active_column = 0 /\ connections # << >>
  THEN Tag([S EXCEPT !.selected_conn_idx = Max(0, @ - 1)], "up:conn")
  ELSE IF S.active_column = 1 /\ S.tables # << >>
  THEN LET sel == Max(0, S.selected_table_idx - 1) IN
       Tag([S EXCEPT !.selected_table_idx = sel,
                     !.table_offset = IF sel < @ THEN sel ELSE @], "up:table")
  ELSE Tag(S, "up:noop")

\* handle_down_original, the handler written for the down key

\* up.  In the console the binding calls sql_editor_buffer.has_focus(), a
\* method prompt_toolkit's Buffer does not define in the releases that
\* provide MouseButton (3.0.x): there the call raises AttributeError, which
\* the binding does not catch.  has_focus is TRUE for a Buffer that answers
\* the call (with whether the console editor has the focus) and FALSE for
\* one that raises.
KeyUp(S, has_focus) ==
  IF S.sql_editor_mode /\ ~has_focus
  THEN Tag([S EXCEPT !.exc = TRUE], "up:error")
  ELSE IF S.sql_editor_mode /\ S.focus = "sql_editor"
  THEN
    IF S.sql_query_history # << >>
    THEN
      LET current == Strip(S.sql_editor_buffer)
          h == S.sql_query_history
          h1 == IF S.sql_history_index < 0 /\ current # Empty
                   /\ (h = << >> \/ h[Len(h)] # current)
                THEN Append(h, current) ELSE h
          idx == Min(Len(h1) - 1, S.sql_history_index + 1)
      IN Tag([S EXCEPT !.sql_query_history = h1,
                       !.sql_history_index = idx,
                       !.sql_editor_buffer =
                          IF idx >= 0 THEN h1[Len(h1) - idx] ELSE @], "up:history")
    ELSE Tag(S, "up:noop")
  ELSE IF S.focus = "where" THEN Tag([S EXCEPT !.focus = "order_by"], "up:focus")
  ELSE IF S.focus \in {"order_by", "search"} THEN Tag(S, "up:noop")
  ELSE IF S.active_column = 0 /\ connections # << >>
  THEN Tag([S EXCEPT !.selected_conn_idx = Max(0, @ - 1)], "up:conn")
  ELSE IF S.active_column = 1 /\ S.tables # << >>
  THEN LET sel == Max(0, S.selected_table_idx - 1) IN
       Tag([S EXCEPT !.selected_table_idx = sel,
                     !.table_offset = IF sel < @ THEN sel ELSE @], "up:table")
  ELSE Tag(S, "up:noop")

\* handle_down_original, the handler written for the down key
handle_down_original(S) ==
  IF S.focus = "order_by" THEN [S EXCEPT !.focus = "where"]
  ELSE IF S.focus \in {"where", "search"} THEN S
  ELSE IF S.active_column = 0 /\ connections # << >>
  THEN [S EXCEPT !.selected_conn_idx = Min(Len(connections) - 1, @ + 1)]
  ELSE IF S.active_column = 1 /\ S.tables # << >>
  THEN LET sel == Min(Len(S.tables) - 1, S.selected_table_idx + 1) IN
       [S EXCEPT !.selected_table_idx = sel,
                 !.table_offset =
                    IF sel >= @ + get_table_window_size
                    THEN Max(0, sel - get_table_window_size + 1) ELSE @]
  ELSE S

\* down.  handle_down_original is defined without a kb.add decorator and
\* no binding for "down" is registered, so the key reaches no handler of
\* the session.
KeyDown(S) == Tag(S, "down")

\* c-p handing the current WHERE text to load_rows_for_table, which then
\* persists it.
KeyCtrlP_persists(S) ==
  IF S.rows_scroll_offset > 0
  THEN Tag(load_rows_for_table(
             [S EXCEPT !.rows_scroll_offset = Max(0, @ - rows_per_page)],
             TRUE, S.current_where_clause, FALSE), "page:prev")
  ELSE Tag(S, "c-p:noop")

\* c-p
KeyCtrlP(S) ==
  IF S.rows_scroll_offset > 0
  THEN Tag(load_rows_for_table(
             [S EXCEPT !.rows_scroll_offset = Max(0, @ - rows_per_page)],
             FALSE, Empty, FALSE), "page:prev")
  ELSE Tag(S, "c-p:noop")

\* c-n calling load_rows_for_table with reset_offset left at its default.
KeyCtrlN_resets(S) ==
  IF S.total_rows_count > 0
     /\ S.rows_scroll_offset + rows_per_page < S.total_rows_count
  THEN Tag(load_rows_for_table(
             [S EXCEPT !.rows_scroll_offset = @ + rows_per_page],
             FALSE, Empty, TRUE), "page:next")
  ELSE Tag(S, "c-n:noop")

\* c-n
KeyCtrlN(S) ==
  IF S.total_rows_count > 0
     /\ S.rows_scroll_offset + rows_per_page < S.total_rows_count
  THEN Tag(load_rows_for_table(
             [S EXCEPT !.rows_scroll_offset = @ + rows_per_page],
             FALSE, Empty, FALSE), "page:next")
  ELSE Tag(S, "c-n:noop")

\* enter.  active_column is assigned in the binding without a nonlocal
\* declaration, so it is a local there and reading it raises
\* UnboundLocalError, which the binding does not catch.
KeyEnter(S, connect_ok, list_ok) ==
  IF S.sql_editor_mode THEN Tag(S, "enter:noop")
  ELSE IF S.focus = "where"
  THEN
    LET new_where == Strip(S.where_buffer)
        S1 == [S EXCEPT !.table_where_clauses =
                           IF HasSchemaAndTable(S)
                           THEN DictSet(@, SelectedKey(S), new_where) ELSE @,
                        !.current_where_clause = new_where]
    IN Tag(load_rows_for_table(S1, TRUE, new_where, TRUE), "enter:where")
  ELSE IF S.focus = "order_by"
  THEN
    LET new_order_by == Strip(S.order_by_buffer)
        S1 == [S EXCEPT !.table_order_by_clauses =
                           IF HasSchemaAndTable(S)
                           THEN DictSet(@, SelectedKey(S), new_order_by) ELSE @,
                        !.current_order_by_clause = new_order_by]
    IN Tag(load_rows_for_table(S1, FALSE, Empty, TRUE), "enter:order_by")
  ELSE IF S.focus = "search"
  THEN
    LET S1 == load_tables_for_connection(
                [S EXCEPT !.table_search_filter = Strip(S.table_search_buffer)],
                connect_ok, list_ok)
    IN Tag(IF S1.exc THEN S1 ELSE [S1 EXCEPT !.focus = "tables"], "enter:search")
  ELSE Tag([S EXCEPT !.exc = TRUE], "enter:list")

\* escape.  table_search_filter is assigned in the binding without a
\* nonlocal declaration, so the session's search filter is left as it was.
KeyEscape(S, connect_ok, list_ok) ==
  IF S.sql_editor_mode
  THEN Tag([S EXCEPT !.sql_editor_mode = FALSE, !.focus = "left"], "escape:close")
  ELSE IF S.focus = "where"
  THEN
    LET S1 == [S EXCEPT !.table_where_clauses =
                           IF HasSchemaAndTable(S)
                           THEN DictSet(@, SelectedKey(S), Empty) ELSE @,
                        !.current_where_clause = Empty,
                        !.where_buffer = Empty]
    IN Tag(load_rows_for_table(S1, FALSE, Empty, TRUE), "escape:where")
  ELSE IF S.focus = "order_by"
  THEN
    LET S1 == [S EXCEPT !.table_order_by_clauses =
                           IF HasSchemaAndTable(S)
                           THEN DictSet(@, SelectedKey(S), Empty) ELSE @,
                        !.current_order_by_clause = Empty,
                        !.order_by_buffer = Empty]
    IN Tag(load_rows_for_table(S1, FALSE, Empty, TRUE), "escape:order_by")
  ELSE IF S.focus = "search"
  THEN Tag(load_tables_for_connection(
             [S EXCEPT !.table_search_buffer = Empty], connect_ok, list_ok),
           "escape:search")
  ELSE IF S.active_column = 2
  THEN
    LET S1 == [S EXCEPT !.table_where_clauses =
                           IF HasSchemaAndTable(S)
                           THEN DictSet(@, SelectedKey(S), Empty) ELSE @,
                        !.table_order_by_clauses =
                           IF HasSchemaAndTable(S)
                           THEN DictSet(@, SelectedKey(S), Empty) ELSE @,
                        !.current_where_clause = Empty,
                        !.current_order_by_clause = Empty,
                        !.where_buffer = Empty,
                        !.order_by_buffer = Empty]
    IN Tag(load_rows_for_table(S1, FALSE, Empty, TRUE), "escape:both")
  ELSE Tag(S, "escape:noop")

\* f
KeyF(S) ==
  IF S.sql_editor_mode THEN Tag(S, "f:noop")
  ELSE IF S.active_column = 1 THEN Tag([S EXCEPT !.focus = "search"], "f")
  ELSE Tag(S, "f:noop")

\* c-f
KeyCtrlF(S, connect_ok, list_ok) ==
  IF S.active_column = 1
  THEN LET S1 == load_tables_for_connection(
                    [S EXCEPT !.table_search_filter = Empty,
                              !.table_search_buffer = Empty], connect_ok, list_ok)
       IN Tag(IF S1.exc THEN S1
              ELSE [S1 EXCEPT !.pushed = Append(@, "Search cleared")], "c-f")
  ELSE Tag(S, "c-f:noop")

\* c-m and f5
KeyExecute(S) ==
  IF S.sql_editor_mode
  THEN Tag(execute_sql_query(S, S.sql_editor_buffer), "execute")
  ELSE Tag(S, "execute:noop")

(***************************************************************************)
(* Mouse handlers                                                           *)
(***************************************************************************)
\* The double-click window of 0.4 s in units of 100 ms, the unit in which
\* the time elapsed since the previous click on an object line is given.
DoubleClickWindow == 4

connections_mouse_handler(S, event_type, y, connect_ok, list_ok) ==
  IF event_type = "SCROLL_UP"
  THEN IF connections # << >>
       THEN Tag(load_tables_for_connection(
                  [S EXCEPT !.selected_conn_idx = Max(0, @ - 1)],
                  connect_ok, list_ok), "conn:scroll")
       ELSE Tag(S, "conn:noop")
  ELSE IF event_type = "SCROLL_DOWN"
  THEN IF connections # << >>
       THEN Tag(load_tables_for_connection(
                  [S EXCEPT !.selected_conn_idx = Min(Len(connections) - 1, @ + 1)],
                  connect_ok, list_ok), "conn:scroll")
       ELSE Tag(S, "conn:noop")
  ELSE IF event_type # "MOUSE_UP" THEN Tag(S, "conn:noop")
  ELSE IF y = 0 THEN Tag(S, "conn:noop")
  ELSE IF 1 <= y /\ y <= Len(connections)
  THEN Tag(load_tables_for_connection(
             [S EXCEPT !.selected_conn_idx = y - 1, !.item = y - 1],
             connect_ok, list_ok),
           "conn:click")
  ELSE Tag([S EXCEPT !.exit = "add"], "conn:add")

tables_mouse_handler(S, event_type, y, button, gap, details_ok) ==
  IF event_type = "SCROLL_UP"
  THEN IF S.tables # << >>
       THEN LET sel == Max(0, S.selected_table_idx - 1) IN
            Tag(load_rows_for_table(
                  [S EXCEPT !.selected_table_idx = sel,
                            !.table_offset = IF sel < @ THEN sel ELSE @],
                  FALSE, Empty, TRUE), "tables:scroll")
       ELSE Tag(S, "tables:noop")
  ELSE IF event_type = "SCROLL_DOWN"
  THEN IF S.tables # << >>
       THEN LET sel == Min(Len(S.tables) - 1, S.selected_table_idx + 1) IN
            Tag(load_rows_for_table(
                  [S EXCEPT !.selected_table_idx = sel,
                            !.table_offset =
                               IF sel >= @ + get_table_window_size
                               THEN Max(0, sel - get_table_window_size + 1) ELSE @],
                  FALSE, Empty, TRUE), "tables:scroll")
       ELSE Tag(S, "tables:noop")
  ELSE IF event_type # "MOUSE_UP" THEN Tag(S, "tables:noop")
  ELSE IF y < 0 \/ y >= Len(table_line_map(S)) THEN Tag(S, "tables:noop")
  ELSE
    LET mapped_idx == table_line_map(S)[y + 1] IN
    IF mapped_idx = None \/ mapped_idx >= Len(S.tables) THEN Tag(S, "tables:noop")
    ELSE
      LET t == S.tables[mapped_idx + 1]
          key == <<t[1], t[2]>>
          is_double == S.last_table_click = key /\ gap < DoubleClickWindow
          S1 == [S EXCEPT !.selected_table_idx = mapped_idx,
                          !.last_table_click = key,
                          !.item = mapped_idx,
                          !.left = (button = "LEFT"),
                          !.pair = is_double,
                          !.toggled = (button = "LEFT" /\ is_double)]
          S2 == IF button = "LEFT" /\ is_double
                THEN IF key \in DOMAIN S1.table_details
                     THEN [S1 EXCEPT !.table_details = DictDel(@, key)]
                     ELSE load_table_details(S1, t[1], t[2], details_ok)
                ELSE S1
      IN IF S2.exc THEN Tag(S2, "tables:click")
         ELSE
           LET S3 == load_rows_for_table([S2 EXCEPT !.active_column = 2],
                                         FALSE, Empty, TRUE)
           IN Tag(IF S3.exc THEN S3 ELSE [S3 EXCEPT !.focus = "order_by"],
                  "tables:click")

\* The export buttons and the cell copy write a file or the clipboard and
\* the status log only; they leave the session state as it is.
rows_mouse_handler(S, event_type, x, y) ==
  IF event_type # "MOUSE_UP" THEN Tag(S, "rows:noop")
  ELSE IF y > 2 /\ S.rows # 0 /\ 0 <= y - 3 /\ y - 3 < S.rows THEN Tag(S, "rows:copy")
  ELSE IF y = 0
  THEN
    LET title_len == MouseTitleLen(S) IN
    IF title_len + 14 <= x /\ x <= title_len + 22 THEN Tag(S, "rows:json")
    ELSE IF title_len + 6 <= x /\ x <= title_len + 14 THEN Tag(S, "rows:csv")
    ELSE IF title_len + 3 <= x /\ x < title_len + 6
            /\ S.total_rows_count > 0
            /\ S.rows_scroll_offset + rows_per_page < S.total_rows_count
    THEN Tag(load_rows_for_table(
               [S EXCEPT !.rows_scroll_offset = @ + rows_per_page],
               FALSE, Empty, FALSE), "page:next")
    ELSE IF title_len <= x /\ x < title_len + 3 /\ S.rows_scroll_offset > 0
    THEN Tag(load_rows_for_table(
               [S EXCEPT !.rows_scroll_offset = Max(0, @ - rows_per_page)],
               FALSE, Empty, FALSE), "page:prev")
    ELSE Tag(S, "rows:noop")
  ELSE Tag(S, "rows:noop")

(***************************************************************************)
(* The session: app.run() inside try/finally                                *)
(***************************************************************************)
\* The finally block forgetting the handle without closing it.
Finally_forgets(S) == NoConnectionState(S)

\* The finally block of browse_connections_ui_once
Finally(S) ==
  NoConnectionState(
    IF S.active_conn # None /\ S.active_adapter # NoAdapter
    THEN [AdapterClose(S, S.active_conn) EXCEPT !.closedAtExit = TRUE] ELSE S)

\* The closure variables as browse_connections_ui_once creates them
InitialLocals ==
  [ tables |-> << >>, all_tables |-> << >>, table_details |-> EmptyDict,
    rows |-> 0, columns |-> 0,
    selected_conn_idx |-> IF connections # << >> THEN 0 ELSE -1,
    selected_table_idx |-> -1,
    active_column |-> 1,
    table_offset |-> 0, last_table_click |-> NoClick,
    rows_scroll_offset |-> 0, total_rows_count |-> 0,
    current_where_clause |-> Empty, table_where_clauses |-> EmptyDict,
    current_order_by_clause |-> Empty, table_order_by_clauses |-> EmptyDict,
    where_buffer |-> Empty, order_by_buffer |-> Empty,
    table_search_filter |-> Empty, table_search_buffer |-> Empty,
    sql_editor_mode |-> FALSE, sql_editor_buffer |-> Empty,
    sql_query_history |-> << >>, sql_history_index |-> -1,
    sql_query_results |-> NoResults, sql_query_error |-> NoError,
    active_conn |-> None, active_conn_idx |-> -1, active_adapter |-> NoAdapter,
    focus |-> "left", update_checked |-> FALSE ]

\* Leaving browse_connections_ui_once: the frame and its closure variables
\* are gone; what remains is the result and what the provider still holds.
Leave(S, how, res) ==
  [f \in DOMAIN S |->
     IF f \in DOMAIN InitialLocals THEN InitialLocals[f]
     ELSE IF f = "phase" THEN how
     ELSE IF f = "result" THEN res
     ELSE S[f]]

\* render_tables: builds the lines of the object list and stores the
\* viewport offset it clamped.
render_tables(S) == [S EXCEPT !.table_offset = RenderTableOffset(S)]

\* render_status: the first call asks check_for_updates() for the latest
\* release, which is a request to the network; the ghost lastStep.update_call
\* records it.
render_status(S) ==
  IF S.update_checked THEN S
  ELSE [S EXCEPT !.update_checked = TRUE,
                 !.lastStep.update_call = "render" \in inputs.observed]

\* One redraw: the three panels and the status window in the panel layout,
\* the console and the status window in the console layout.
Render(S) ==
  render_status(IF S.sql_editor_mode THEN S ELSE render_tables(S))

\* What one event leaves behind: the session ends when the handler called
\* app.exit or let an exception escape, and the panels are redrawn otherwise.
AfterEvent(S) ==
  IF S.exc THEN Leave(Finally(S), "ended", "error")
  ELSE IF S.exit # "" THEN Leave(Finally(S), "ended", S.exit)
  ELSE Render(S)

Install(S) ==
  /\ UNCHANGED << connections, inputs >>
  /\ tables' = S.tables
  /\ all_tables' = S.all_tables
  /\ table_details' = S.table_details
  /\ rows' = S.rows
  /\ columns' = S.columns
  /\ selected_conn_idx' = S.selected_conn_idx
  /\ selected_table_idx' = S.selected_table_idx
  /\ active_column' = S.active_column
  /\ table_offset' = S.table_offset
  /\ last_table_click' = S.last_table_click
  /\ rows_scroll_offset' = S.rows_scroll_offset
  /\ total_rows_count' = S.total_rows_count
  /\ current_where_clause' = S.current_where_clause
  /\ table_where_clauses' = S.table_where_clauses
  /\ current_order_by_clause' = S.current_order_by_clause
  /\ table_order_by_clauses' = S.table_order_by_clauses
  /\ where_buffer' = S.where_buffer
  /\ order_by_buffer' = S.order_by_buffer
  /\ table_search_filter' = S.table_search_filter
  /\ table_search_buffer' = S.table_search_buffer
  /\ sql_editor_mode' = S.sql_editor_mode
  /\ sql_editor_buffer' = S.sql_editor_buffer
  /\ sql_query_history' = S.sql_query_history
  /\ sql_history_index' = S.sql_history_index
  /\ sql_query_results' = S.sql_query_results
  /\ sql_query_error' = S.sql_query_error
  /\ active_conn' = S.active_conn
  /\ active_conn_idx' = S.active_conn_idx
  /\ active_adapter' = S.active_adapter
  /\ focus' = S.focus
  /\ phase' = S.phase
  /\ result' = S.result
  /\ window_size' = S.window_size
  /\ update_checked' = S.update_checked
  /\ openHandles' = S.openHandles
  /\ lastConnect' = S.lastConnect
  /\ closedAtExit' = S.closedAtExit
  /\ steps' = S.steps
  /\ carried' = S.carried
  /\ lastStep' = S.lastStep
  /\ lastCount' = S.lastCount
  /\ lastFetch' = S.lastFetch
  /\ lastEvent' = S.lastEvent

\* The state at the start of browse_connections_ui_once, for the saved
\* connections conns and the scenario's input alphabet ins.
InitWith(conns, ins) ==
  /\ connections = conns
  /\ inputs = ins
  /\ tables = InitialLocals.tables
  /\ all_tables = InitialLocals.all_tables
  /\ table_details = InitialLocals.table_details
  /\ rows = InitialLocals.rows
  /\ columns = InitialLocals.columns
  /\ selected_conn_idx = InitialLocals.selected_conn_idx
  /\ selected_table_idx = InitialLocals.selected_table_idx
  /\ active_column = InitialLocals.active_column
  /\ table_offset = InitialLocals.table_offset
  /\ last_table_click = InitialLocals.last_table_click
  /\ rows_scroll_offset = InitialLocals.rows_scroll_offset
  /\ total_rows_count = InitialLocals.total_rows_count
  /\ current_where_clause = InitialLocals.current_where_clause
  /\ table_where_clauses = InitialLocals.table_where_clauses
  /\ current_order_by_clause = InitialLocals.current_order_by_clause
  /\ table_order_by_clauses = InitialLocals.table_order_by_clauses
  /\ where_buffer = InitialLocals.where_buffer
  /\ order_by_buffer = InitialLocals.order_by_buffer
  /\ table_search_filter = InitialLocals.table_search_filter
  /\ table_search_buffer = InitialLocals.table_search_buffer
  /\ sql_editor_mode = InitialLocals.sql_editor_mode
  /\ sql_editor_buffer = InitialLocals.sql_editor_buffer
  /\ sql_query_history = InitialLocals.sql_query_history
  /\ sql_history_index = InitialLocals.sql_history_index
  /\ sql_query_results = InitialLocals.sql_query_results
  /\ sql_query_error = InitialLocals.sql_query_error
  /\ active_conn = InitialLocals.active_conn
  /\ active_conn_idx = InitialLocals.active_conn_idx
  /\ active_adapter = InitialLocals.active_adapter
  /\ focus = InitialLocals.focus
  /\ phase = "start"
  /\ result = ""
  /\ window_size = WindowSize
  /\ update_checked = InitialLocals.update_checked
  /\ openHandles = [h \in 0..(Len(conns) - 1) |-> 0]
  /\ lastConnect = NoConnect
  /\ closedAtExit = FALSE
  /\ steps = -1
  /\ carried = "-"
  /\ lastStep = NoStep
  /\ lastCount = NoQuery
  /\ lastFetch = NoQuery
  /\ lastEvent = "-"

\* "if connections: set_active_connection(...); load_tables_for_connection()"
\* runs before the try block: an exception here leaves the function before
\* the session has started.
Startup ==
  /\ phase = "start"
  /\ \E first_ok, connect_ok, list_ok \in BOOLEAN :
       LET S0 == State
           S1 == IF connections # << >>
                 THEN load_tables_for_connection(
                        set_active_connection(S0, S0.selected_conn_idx, first_ok),
                        connect_ok, list_ok)
                 ELSE S0
       IN Install(IF S1.exc
                  THEN Tag(Leave(S1, "aborted", "error"), "startup")
                  ELSE Render(Tag([S1 EXCEPT !.phase = "running"], "startup")))

\* An event of kind ev can arrive: the session is running and the scenario
\* sends events of that kind.
Running(ev) == phase = "running" /\ ev \in inputs.events
\* The same for an event on the three panels, which are on screen unless the
\* console layout has replaced them.
PanelsShown(ev) == Running(ev) /\ ~sql_editor_mode

\* The outcomes of the provider calls one event may make: whether connect
\* succeeds and, when it does, whether the object listing succeeds.
ListOutcomes(connect_ok) == IF connect_ok THEN BOOLEAN ELSE {TRUE}

PressQ == Running("q") /\ Install(AfterEvent(KeyQ(State)))
PressCtrlE == Running("c-e") /\ Install(AfterEvent(KeyCtrlE(State)))
PressTab == Running("tab") /\ Install(AfterEvent(KeyTab(State)))
\* The user stops adding to the history once it holds inputs.max_history
\* entries, and stops pressing up in the console once the cursor is at
\* inputs.max_cursor.
HistoryRoom == Len(sql_query_history) < inputs.max_history
PressUp ==
  /\ Running("up")
  /\ sql_editor_mode =>
       /\ sql_history_index < inputs.max_cursor
       /\ sql_history_index >= 0 \/ HistoryRoom
  /\ \E has_focus \in inputs.has_focus : Install(AfterEvent(KeyUp(State, has_focus)))
PressDown == Running("down") /\ Install(AfterEvent(KeyDown(State)))
PressCtrlP == Running("c-p") /\ Install(AfterEvent(KeyCtrlP(State)))
PressCtrlN == Running("c-n") /\ Install(AfterEvent(KeyCtrlN(State)))
PressEnter ==
  /\ Running("enter")
  /\ \E connect_ok \in BOOLEAN : \E list_ok \in ListOutcomes(connect_ok) :
       Install(AfterEvent(KeyEnter(State, connect_ok, list_ok)))
PressEscape ==
  /\ Running("escape")
  /\ \E connect_ok \in BOOLEAN : \E list_ok \in ListOutcomes(connect_ok) :
       Install(AfterEvent(KeyEscape(State, connect_ok, list_ok)))
PressF == Running("f") /\ Install(AfterEvent(KeyF(State)))
PressCtrlF ==
  /\ Running("c-f")
  /\ \E connect_ok \in BOOLEAN : \E list_ok \in ListOutcomes(connect_ok) :
       Install(AfterEvent(KeyCtrlF(State, connect_ok, list_ok)))
PressExecute ==
  /\ Running("execute")
  /\ HistoryRoom
  /\ Install(AfterEvent(KeyExecute(State)))

MaxClickY == 3

ScrollConnections ==
  /\ PanelsShown("scroll-connections")
  /\ \E event_type \in {"SCROLL_UP", "SCROLL_DOWN"}, connect_ok \in BOOLEAN :
       \E list_ok \in ListOutcomes(connect_ok) :
         Install(AfterEvent(
           connections_mouse_handler(State, event_type, 0, connect_ok, list_ok)))

ClickConnections ==
  /\ PanelsShown("click-connections")
  /\ \E y \in 0..MaxClickY, connect_ok \in BOOLEAN :
       \E list_ok \in ListOutcomes(connect_ok) :
         Install(AfterEvent(
           connections_mouse_handler(State, "MOUSE_UP", y, connect_ok, list_ok)))

ScrollTables ==
  /\ PanelsShown("scroll-tables")
  /\ \E event_type \in {"SCROLL_UP", "SCROLL_DOWN"} :
       Install(AfterEvent(
         tables_mouse_handler(State, event_type, 0, "NONE", 0, TRUE)))

ClickTables ==
  /\ PanelsShown("click-tables")
  /\ \E y \in 0..MaxClickY, button \in {"LEFT", "RIGHT"}, gap \in inputs.gaps,
        details_ok \in BOOLEAN :
       Install(AfterEvent(
         tables_mouse_handler(State, "MOUSE_UP", y, button, gap, details_ok)))

ClickRows ==
  /\ PanelsShown("click-rows")
  /\ \E dx \in inputs.header_x, y \in {0, 3} :
       LET x == MouseTitleLen(State) + dx IN
       Install(AfterEvent(
         rows_mouse_handler([State EXCEPT !.drawn = DrawnAt(State, x, y)],
                            "MOUSE_UP", x, y)))

\* A mouse event of another type (button pressed, pointer moved) on a panel
MouseDown ==
  /\ PanelsShown("mouse-down")
  /\ \/ Install(AfterEvent(connections_mouse_handler(State, "MOUSE_DOWN", 1, TRUE, TRUE)))
     \/ Install(AfterEvent(tables_mouse_handler(State, "MOUSE_DOWN", 1, "LEFT", 0, TRUE)))
     \/ Install(AfterEvent(rows_mouse_handler(State, "MOUSE_DOWN", 0, 0)))

\* The terminal is resized: the window of the object list becomes w lines
\* and the screen is redrawn.
Resize ==
  /\ Running("resize")
  /\ \E w \in inputs.windows :
       Install(AfterEvent(Tag([State EXCEPT !.window_size = w], "resize")))

\* Typing into the focused text field replaces its text.
TypingFrame ==
  /\ lastEvent' = "-"
  /\ lastCount' = NoQuery
  /\ lastFetch' = NoQuery
  /\ steps' = -1
  /\ lastStep' = StepOf(State, "type")
  /\ UNCHANGED << carried, connections, inputs, tables, all_tables, table_details, rows,
                  columns, selected_conn_idx, selected_table_idx, active_column,
                  table_offset, last_table_click,
                  rows_scroll_offset, total_rows_count,
                  current_where_clause, table_where_clauses,
                  current_order_by_clause, table_order_by_clauses,
                  table_search_filter,
                  sql_editor_mode, sql_query_history,
                  sql_history_index, sql_query_results, sql_query_error,
                  active_conn, active_conn_idx, active_adapter,
                  focus, phase, result, window_size, update_checked,
                  openHandles, lastConnect, closedAtExit >>

TypeWhere ==
  /\ PanelsShown("type") /\ focus = "where"
  /\ \E t \in inputs.where : where_buffer' = t
  /\ UNCHANGED << order_by_buffer, table_search_buffer, sql_editor_buffer >>
  /\ TypingFrame

TypeOrderBy ==
  /\ PanelsShown("type") /\ focus = "order_by"
  /\ \E t \in inputs.order_by : order_by_buffer' = t
  /\ UNCHANGED << where_buffer, table_search_buffer, sql_editor_buffer >>
  /\ TypingFrame

TypeSearch ==
  /\ PanelsShown("type") /\ focus = "search"
  /\ \E t \in inputs.search : table_search_buffer' = t
  /\ UNCHANGED << where_buffer, order_by_buffer, sql_editor_buffer >>
  /\ TypingFrame

\* Typing into the console editor replaces its text.
TypeSql ==
  /\ Running("type-sql") /\ sql_editor_mode /\ focus = "sql_editor"
  /\ \E t \in inputs.sql : sql_editor_buffer' = t
  /\ UNCHANGED << where_buffer, order_by_buffer, table_search_buffer >>
  /\ TypingFrame

(***************************************************************************)
(* Scenarios.  A scenario fixes the saved connections and what the user    *)
(* sends: the kinds of events, the texts typed into the filter and search  *)
(* fields, the gaps between clicks on an object line (in 100 ms), the      *)
(* columns clicked in the data panel's header relative to the column where *)
(* the handler places the previous-page arrow, the texts typed into the    *)
(* console editor, whether the editor's Buffer answers has_focus(), how    *)
(* long the user lets the history grow and how far the user moves the      *)
(* history cursor, the sizes the terminal is resized to (as the object     *)
(* list's window sizes), and what the ghosts record.                       *)
(***************************************************************************)
MaxEntries == 52
MaxWindow == 6
MaxHeaderX == 27
NavEntries == 3
CapCursor == 1

Scenario(events, observed) ==
  [ events |-> events,
    where |-> { <<" ", "w">> },
    order_by |-> { <<"o", " ">> },
    search |-> { <<"b">> },
    sql |-> { <<"s">> },
    has_focus |-> {TRUE},
    max_history |-> MaxEntries,
    max_cursor |-> MaxEntries,
    gaps |-> {5},
    header_x |-> {0, 3},
    windows |-> {WindowSize},
    observed |-> observed ]

\* Connections: switching between two connections, searching and the console
\* toggle.
ConnectionEvents ==
  { "q", "c-e", "tab", "up", "enter", "escape", "f", "c-f",
    "scroll-connections", "click-connections", "mouse-down", "type" }

\* Objects: selecting among the objects of one connection, searching and
\* reloading.
ObjectEvents ==
  { "q", "tab", "up", "enter", "escape", "f", "c-f",
    "click-connections", "scroll-tables", "click-tables", "mouse-down", "type" }

Init ==
  \/ InitWith(<< Pg2, Mg1 >>, Scenario(ConnectionEvents, {}))
  \/ InitWith(<< Pg1 >>, Scenario(ObjectEvents, {}))

Next ==
  \/ Startup
  \/ PressQ
  \/ PressCtrlE
  \/ PressTab
  \/ PressUp
  \/ PressEnter
  \/ PressEscape
  \/ PressF
  \/ PressCtrlF
  \/ ScrollConnections
  \/ ClickConnections
  \/ ScrollTables
  \/ ClickTables
  \/ MouseDown
  \/ TypeSearch

Spec == Init /\ [][Next]_vars

\* Paging: page navigation between selection changes and reloads.
PageEvents ==
  { "tab", "up", "c-p", "c-n", "enter", "f", "c-f", "click-connections",
    "scroll-tables", "click-tables", "click-rows", "type" }

InitPage == InitWith(<< Pg1 >>, Scenario(PageEvents, PageTags \cup {"selection"}))

NextPage ==
  \/ Startup
  \/ PressTab
  \/ PressUp
  \/ PressCtrlP
  \/ PressCtrlN
  \/ PressEnter
  \/ PressF
  \/ PressCtrlF
  \/ ClickConnections
  \/ ScrollTables
  \/ ClickTables
  \/ ClickRows
  \/ TypeSearch

SpecPage == InitPage /\ [][NextPage]_vars

\* Filters: typing, applying and clearing WHERE and ORDER BY, together with
\* one further group of events per scenario.
FilterEvents == { "tab", "up", "enter", "escape", "type" }
FilterObserved ==
  { "enter:where", "enter:order_by", "escape:where", "escape:order_by",
    "escape:both" }

InitFilter ==
  \/ InitWith(<< Mg >>, Scenario(FilterEvents \cup {"scroll-tables"}, FilterObserved))
  \/ InitWith(<< Pg2 >>, Scenario(FilterEvents \cup {"c-n", "c-p", "click-rows"},
                                  FilterObserved))
  \/ InitWith(<< Pg2 >>, Scenario(FilterEvents \cup {"f", "c-f", "click-connections",
                                                     "scroll-connections"},
                                  FilterObserved))
  \/ InitWith(<< Pg2 >>, Scenario(FilterEvents \cup {"c-e", "q", "execute"},
                                  FilterObserved))
  \/ InitWith(<< Pg1 >>, Scenario(FilterEvents \cup {"click-tables", "mouse-down"},
                                  FilterObserved))

NextFilter ==
  \/ Startup
  \/ PressQ
  \/ PressCtrlE
  \/ PressTab
  \/ PressUp
  \/ PressCtrlP
  \/ PressCtrlN
  \/ PressEnter
  \/ PressEscape
  \/ PressF
  \/ PressCtrlF
  \/ PressExecute
  \/ ScrollConnections
  \/ ClickConnections
  \/ ScrollTables
  \/ ClickTables
  \/ ClickRows
  \/ MouseDown
  \/ TypeWhere
  \/ TypeOrderBy
  \/ TypeSearch

SpecFilter == InitFilter /\ [][NextFilter]_vars

\* The paging scenario of a committed filter: apply a WHERE, page forward.
StepEvents == { "tab", "type", "enter", "c-n", "c-p", "scroll-tables" }

InitSteps == InitWith(<< Pg1 >>, Scenario(StepEvents, {"steps", "enter:where"} \cup PageTags))

NextSteps ==
  \/ Startup
  \/ PressTab
  \/ PressEnter
  \/ PressCtrlP
  \/ PressCtrlN
  \/ ScrollTables
  \/ TypeWhere
  \/ TypeOrderBy

SpecSteps == InitSteps /\ [][NextSteps]_vars

\* Focus: moving the focus with the keys and the mouse, on one connection
\* with two objects (or none, when connecting fails); and runs of presses of
\* the focus-cycle key.
UpDownTags == { "up:history", "up:noop", "up:focus", "up:conn", "up:table", "down" }
FocusEvents ==
  { "tab", "up", "down", "f", "c-f", "escape", "scroll-tables",
    "click-connections", "click-tables" }
FocusObserved ==
  { "step", "tab", "conn:click", "tables:click" } \cup UpDownTags
TabEvents == { "tab", "up", "scroll-tables" }

InitFocus ==
  \/ InitWith(<< Pg1 >>, Scenario(FocusEvents, FocusObserved))
  \/ InitWith(<< Pg1 >>, Scenario(TabEvents, {"tabs"}))

NextFocus ==
  \/ Startup
  \/ PressTab
  \/ PressUp
  \/ PressDown
  \/ PressEscape
  \/ PressF
  \/ PressCtrlF
  \/ ScrollTables
  \/ ClickConnections
  \/ ClickTables

SpecFocus == InitFocus /\ [][NextFocus]_vars

\* Console: entering the console from any focus, the keys pressed while it is
\* shown, and leaving it.
ConsoleEvents ==
  { "tab", "up", "enter", "f", "c-f", "c-n", "c-p", "c-e", "q", "escape",
    "scroll-tables" }
ConsoleKeyTags ==
  { "tab:noop", "enter:noop", "f:noop", "c-f", "c-f:noop", "page:next",
    "page:prev", "c-n:noop", "c-p:noop", "up:history", "up:noop", "up:conn",
    "up:table" }
ConsoleObserved ==
  { "step", "entry", "q:close", "q:quit", "escape:close" } \cup ConsoleKeyTags

InitConsole == InitWith(<< Pg1 >>, Scenario(ConsoleEvents, ConsoleObserved))

NextConsole ==
  \/ Startup
  \/ PressQ
  \/ PressCtrlE
  \/ PressTab
  \/ PressUp
  \/ PressCtrlP
  \/ PressCtrlN
  \/ PressEnter
  \/ PressEscape
  \/ PressF
  \/ PressCtrlF
  \/ ScrollTables

SpecConsole == InitConsole /\ [][NextConsole]_vars

\* Clicks: clicks on the lines of the object list of one connection with two
\* objects, rapid (200 ms after the click before) and slow (500 ms).
ClickEvents == { "click-tables", "scroll-tables", "tab" }

InitClick ==
  InitWith(<< Pg1 >>,
           [Scenario(ClickEvents, {"clicks", "tables:click"})
              EXCEPT !.gaps = {2, 5}])

NextClick ==
  \/ Startup
  \/ PressTab
  \/ ScrollTables
  \/ ClickTables

SpecClick == InitClick /\ [][NextClick]_vars

\* Reloads: the metadata cache across reloads of the object list on two
\* connections, and the search filter applied and cleared on one.
CacheEvents == { "click-tables", "click-connections", "c-f" }
SearchEvents == { "tab", "f", "type", "enter", "escape", "c-f" }
SearchTags == { "enter:search", "escape:search", "c-f" }

InitReload ==
  \/ InitWith(<< Pg1, Pg2 >>,
              [Scenario(CacheEvents, ReloadTags) EXCEPT !.gaps = {2}])
  \/ InitWith(<< Pg1 >>,
              [Scenario(SearchEvents, SearchTags \cup {"listing"})
                 EXCEPT !.search = { <<"b">>, Empty }])

NextReload ==
  \/ Startup
  \/ PressTab
  \/ PressEnter
  \/ PressEscape
  \/ PressF
  \/ PressCtrlF
  \/ ClickConnections
  \/ ClickTables
  \/ TypeSearch

SpecReload == InitReload /\ [][NextReload]_vars

\* Connects: selections among two connections by clicks and the wheel, with
\* connects that succeed and connects that fail, and objects selected in
\* between.
ConnectEvents ==
  { "click-connections", "scroll-connections", "click-tables", "c-f" }

InitConnect ==
  InitWith(<< Pg1, Pg2 >>,
           [Scenario(ConnectEvents, ReloadTags \cup {"connect"})
              EXCEPT !.gaps = {5}])

NextConnect ==
  \/ Startup
  \/ ClickConnections
  \/ ScrollConnections
  \/ ClickTables
  \/ PressCtrlF

SpecConnect == InitConnect /\ [][NextConnect]_vars

\* Shared keys: two connections that both hold an object p.a, with clauses
\* stored and cleared on either and selections of the other in between.
InitShared ==
  InitWith(<< Pg2, [name |-> "pg3", db_type |-> "postgres"] >>,
           Scenario({ "tab", "type", "enter", "escape", "click-connections",
                      "scroll-tables" },
                    { "commits" }))

NextShared ==
  \/ Startup
  \/ PressTab
  \/ PressEnter
  \/ PressEscape
  \/ ClickConnections
  \/ ScrollTables
  \/ TypeWhere
  \/ TypeOrderBy

SpecShared == InitShared /\ [][NextShared]_vars

\* History: the console on one connection (open, or none when connecting
\* failed).  In the first scenario the user types one of two queries the
\* engine accepts or a blank text, executes, and moves through a history of
\* up to NavEntries entries (one of the texts is an accepted query between
\* blanks); in the second the history is filled beyond its
\* capacity while the cursor stays within CapCursor of the newest entry.
HistoryEvents == { "c-e", "escape", "execute", "up", "down", "type-sql" }
HistoryObserved ==
  { "history", "c-e", "execute", "up:history", "up:noop", "up:error", "down" }

InitHistory ==
  \/ InitWith(<< Pg1 >>,
              [Scenario(HistoryEvents, HistoryObserved)
                 EXCEPT !.sql = { GoodSql, OtherSql, <<" ">>, <<" ", "s", " ">> },
                        !.has_focus = BOOLEAN,
                        !.max_history = NavEntries])
  \/ InitWith(<< Pg1 >>,
              [Scenario({"c-e", "execute", "up", "type-sql"}, {"up:history"})
                 EXCEPT !.sql = { GoodSql, OtherSql },
                        !.max_cursor = CapCursor])

NextHistory ==
  \/ Startup
  \/ PressCtrlE
  \/ PressEscape
  \/ PressExecute
  \/ PressUp
  \/ PressDown
  \/ TypeSql

SpecHistory == InitHistory /\ [][NextHistory]_vars

\* Query errors: one connection whose engine rejects the WHERE text "x", and
\* whose object listing and detail queries may fail.
\* The events whose handlers query the provider and have no other way to
\* fail or to end the session
QueryTags == { "enter:where", "enter:order_by", "c-f", "tables:click" }

InitErrors ==
  InitWith(<< Pg1 >>,
           [Scenario({ "q", "tab", "type", "enter", "c-f", "click-tables" },
                     QueryTags)
              EXCEPT !.where = { GoodWhere, BadWhere }, !.gaps = {2}])

NextErrors ==
  \/ Startup
  \/ PressQ
  \/ PressTab
  \/ PressEnter
  \/ PressCtrlF
  \/ ClickTables
  \/ TypeWhere
  \/ TypeOrderBy

SpecErrors == InitErrors /\ [][NextErrors]_vars

\* Searches: search texts applied, cleared and reset on a connection whose
\* objects have a schema and on one whose objects have none.
InitSearch ==
  \/ InitWith(<< Pg1 >>,
              [Scenario(SearchEvents, SearchTags \cup {"listing"})
                 EXCEPT !.search = { <<"b">>, <<"A">>, <<"p", ".">>, <<" ", "a">>,
                                     <<"z">>, Empty }])
  \/ InitWith(<< Mg >>,
              [Scenario(SearchEvents, SearchTags \cup {"listing"})
                 EXCEPT !.search = { <<".">>, <<"B">>, Empty }])

NextSearch ==
  \/ Startup
  \/ PressTab
  \/ PressEnter
  \/ PressEscape
  \/ PressF
  \/ PressCtrlF
  \/ TypeSearch

SpecSearch == InitSearch /\ [][NextSearch]_vars

\* Header clicks: clicks on every column of the data panel's header line,
\* MaxHeaderX + 1 of them starting 5 columns left of the column where the
\* mouse handler places the previous-page arrow (the drawn title is up to 5
\* characters shorter than the one the handler measures), on objects of 3 and of 35 rows at
\* every page, and on the empty panel.
InitHeader ==
  InitWith(<< Pg1 >>,
           [Scenario({ "click-rows", "scroll-tables", "tab" },
                     { "header", "page:next", "page:prev", "rows:csv",
                       "rows:json", "rows:noop", "rows:copy" })
              EXCEPT !.header_x = { dx - 5 : dx \in 0..MaxHeaderX }])

NextHeader ==
  \/ Startup
  \/ PressTab
  \/ ScrollTables
  \/ ClickRows

SpecHeader == InitHeader /\ [][NextHeader]_vars

\* Redraws: one connection with six objects in a terminal that is resized
\* between the smallest window and MaxWindow lines, with the object list
\* scrolled and the console opened and closed.
InitRender ==
  InitWith(<< Pg6 >>,
           [Scenario({ "resize", "scroll-tables", "c-e", "escape" },
                     { "render", "resize", "startup" })
              EXCEPT !.windows = WindowSize..MaxWindow])

NextRender ==
  \/ Startup
  \/ Resize
  \/ ScrollTables
  \/ PressCtrlE
  \/ PressEscape

SpecRender == InitRender /\ [][NextRender]_vars

(***************************************************************************)
(* Properties                                                               *)
(***************************************************************************)
RECURSIVE SumHandles(_, _)
SumHandles(f, D) ==
  IF D = {} THEN 0
  ELSE LET h == CHOOSE x \in D : TRUE IN f[h] + SumHandles(f, D \ {h})

\* The handles the provider has handed out and not yet seen closed
OpenCount == SumHandles(openHandles, DOMAIN openHandles)

\* An object is selected and a connection is open.
HasSelection ==
  /\ phase = "running"
  /\ active_conn # None
  /\ selected_table_idx >= 0
  /\ selected_table_idx < Len(tables)

\* Key of the selected object in the per-object filter memory
CurrentKey ==
  << tables[selected_table_idx + 1][1], tables[selected_table_idx + 1][2] >>

PersistedWhere == DictGet(table_where_clauses, CurrentKey, Empty)
PersistedOrderBy == DictGet(table_order_by_clauses, CurrentKey, Empty)

\* C1: in every reachable state at most one connection handle is open, and
\* every connect was attempted with no handle open: when
\* set_active_connection switches to another connection it has closed the
\* previous handle before it calls connect.
C1_AtMostOneHandle ==
  /\ OpenCount <= 1
  /\ lastConnect.open = {}

\* A switch happened: the session holds a handle to one connection and the
\* connect that produced it was preceded by the close of another's handle.
C1_Switched ==
  /\ phase = "running"
  /\ active_conn # None
  /\ lastConnect.ok
  /\ lastConnect.closed # None
  /\ lastConnect.closed # active_conn
  /\ openHandles[active_conn] = 1

C3_IndicesInBounds ==
  /\ selected_conn_idx \in -1..(Len(connections) - 1)
  /\ selected_table_idx \in -1..(Len(tables) - 1)

\* Scrolling or clicking has taken the selection to the last of several
\* objects.
C3_LastSelected ==
  /\ phase = "running"
  /\ Len(tables) > 1
  /\ selected_table_idx = Len(tables) - 1

\* C4: after a page-forward or page-backward action the offset is a
\* multiple of the page size and at most max(0, totalCount - 1), for the
\* count the action's refresh stored.
C4_OffsetWithinCount ==
  (phase = "running" /\ lastEvent \in PageTags) =>
    /\ rows_scroll_offset % rows_per_page = 0
    /\ rows_scroll_offset <= Max(0, total_rows_count - 1)

\* A page-forward action left the offset beyond the rows of the object its
\* refresh counted.
C4_PagedPastEnd ==
  /\ HasSelection
  /\ lastEvent = "page:next"
  /\ lastCount.kind = "count"
  /\ lastCount.table = CurrentKey[2]
  /\ rows_scroll_offset >= total_rows_count
  /\ total_rows_count > 0

\* C5: in every reachable state the offset plus the number of rows held by
\* the data panel is at most totalCount.
C5_WindowWithinCount ==
  rows_scroll_offset + rows <= total_rows_count

\* The data panel holds no rows and no count while the offset is still that
\* of an earlier page.
C5_OffsetBeyondCount ==
  /\ phase = "running"
  /\ rows_scroll_offset > 0
  /\ rows = 0
  /\ rows_scroll_offset > total_rows_count

\* C6: no page navigation starts from an offset other than 0 when the
\* selected object changed or the object list was reloaded since the last
\* page navigation.
C6_NoCarriedOffset == carried # "carried"

\* A page-forward action has run for an object other than the one the
\* offset was reached on.
C6_CarriedOver ==
  /\ HasSelection
  /\ carried = "carried"
  /\ lastEvent = "page:next"

\* C7: after Enter in the WHERE (ORDER BY) field with an object selected and
\* a connection open, the object's persisted clause is the trimmed text, the
\* offset is 0 and the fetch of the refresh carries the clause.
C7_EnterPersists ==
  /\ (HasSelection /\ lastEvent = "enter:where") =>
       /\ PersistedWhere = current_where_clause
       /\ rows_scroll_offset = 0
       /\ lastFetch.kind = "fetch" /\ lastFetch.where = current_where_clause
  /\ (HasSelection /\ lastEvent = "enter:order_by") =>
       /\ PersistedOrderBy = current_order_by_clause
       /\ rows_scroll_offset = 0
       /\ lastFetch.kind = "fetch" /\ lastFetch.order_by = current_order_by_clause

\* Enter in the ORDER BY field of an object with an empty schema: the text
\* was taken from the field and nothing was persisted.
C7_OrderByNotPersisted ==
  /\ HasSelection
  /\ lastEvent = "enter:order_by"
  /\ CurrentKey[1] = Empty
  /\ current_order_by_clause = GoodOrder
  /\ PersistedOrderBy = Empty
  /\ order_by_buffer = Empty

\* C8: after Escape on the focused WHERE (ORDER BY) field the selected
\* object's persisted clause is empty and the fetch of the reload carries no
\* such clause.
C8_EscapeClears ==
  /\ (HasSelection /\ lastEvent = "escape:where") =>
       /\ PersistedWhere = Empty
       /\ lastFetch.kind = "fetch" /\ lastFetch.where = Empty
  /\ (HasSelection /\ lastEvent = "escape:order_by") =>
       /\ PersistedOrderBy = Empty
       /\ lastFetch.kind = "fetch" /\ lastFetch.order_by = Empty

\* Escape on the WHERE field of an object with an empty schema: the
\* persisted clause is still there and the reload was issued with it.
C8_WhereNotCleared ==
  /\ HasSelection
  /\ lastEvent = "escape:where"
  /\ CurrentKey[1] = Empty
  /\ PersistedWhere = GoodWhere
  /\ lastFetch.kind = "fetch" /\ lastFetch.where = GoodWhere

\* C9: while the session runs, a step changes the persisted WHERE or ORDER
\* BY clauses of the objects only if it is Enter on a filter field or
\* Escape; selection, paging, search, reloads and the console leave them.
C9_FilterStateFrame ==
  [][ ( /\ phase' = "running"
        /\ \/ table_where_clauses' # table_where_clauses
           \/ table_order_by_clauses' # table_order_by_clauses )
      => lastEvent' \in FilterObserved ]_vars

\* A page was turned after an ORDER BY was applied, and the clause is still
\* the object's.
C9_PagedWithFilter ==
  /\ HasSelection
  /\ PersistedOrderBy = GoodOrder
  /\ rows_scroll_offset = rows_per_page

\* C10: after a WHERE w is applied, the count queries of the apply and of
\* the page-forward actions that follow carry w and totalCount is the number
\* of rows matching w; after two page-forward actions the offset is twice
\* the page size and the object's persisted WHERE is still w.
C10_TwoPagesForward ==
  (phase = "running" /\ steps >= 0) =>
    /\ HasSelection
    /\ PersistedWhere \in { Strip(t) : t \in inputs.where }
    /\ lastCount.kind = "count"
    /\ lastCount.where = PersistedWhere
    /\ total_rows_count =
         ProviderRowCount(connections[active_conn_idx + 1], CurrentKey[2],
                          PersistedWhere = GoodWhere)
    /\ rows_scroll_offset = steps * rows_per_page

\* Two page-forward actions followed the apply of w on an object with more
\* than two pages of matching rows.
C10_SecondPage ==
  /\ phase = "running"
  /\ steps = 2
  /\ PersistedWhere = GoodWhere
  /\ total_rows_count > 2 * rows_per_page


\* C11: outside console mode one press of the focus-cycle key moves the
\* focus from each of the five focus states to the next in the order
\* connections, search, object list, ORDER BY, WHERE, connections.
C11_TabFollowsCycle ==
  (phase = "running" /\ lastEvent = "tab") =>
    focus = CASE lastStep.focus = "left" -> "search"
              [] lastStep.focus = "search" -> "tables"
              [] lastStep.focus = "tables" -> "order_by"
              [] lastStep.focus = "order_by" -> "where"
              [] OTHER -> "left"

\* One press with the focus on the connections took it to ORDER BY.
C11_SkippedToOrderBy ==
  /\ phase = "running"
  /\ lastEvent = "tab"
  /\ lastStep.focus = "left"
  /\ focus = "order_by"

\* C12: outside console mode six presses of the focus-cycle key in a row
\* return the focus to the state the first press found.
C12_SixTabsReturn ==
  (phase = "running" /\ lastStep.tabs_n = 6) => focus = lastStep.tabs_start

\* Six presses in a row that started on the search field ended on the object
\* list.
C12_SixTabsAdvance ==
  /\ phase = "running"
  /\ lastStep.tabs_n = 6
  /\ lastStep.tabs_start = "search"
  /\ focus = "tables"

\* C13: while no object is selected, no event moves the focus to ORDER BY
\* or WHERE.
C13_FiltersUnreachable ==
  ( /\ phase = "running"
    /\ lastStep.table = -1
    /\ selected_table_idx = -1
    /\ lastStep.focus \notin {"order_by", "where"} )
  => focus \notin {"order_by", "where"}

\* With no object selected the focus-cycle key moved the focus from the
\* object list to ORDER BY.
C13_OrderByWithoutObject ==
  /\ phase = "running"
  /\ lastEvent = "tab"
  /\ selected_table_idx = -1
  /\ tables = << >>
  /\ lastStep.focus = "tables"
  /\ focus = "order_by"

\* C14: Escape or the quit key in console mode leaves the session running,
\* shows the three panels and puts the focus where it was when the console
\* was entered.
C14_ConsoleRestoresFocus ==
  lastEvent \in {"q:close", "escape:close"} =>
    /\ phase = "running"
    /\ ~sql_editor_mode
    /\ focus = lastStep.entry

\* The console was entered from WHERE and left with the quit key: the
\* session runs on with the focus on the connections.
C14_FocusLost ==
  /\ phase = "running"
  /\ lastEvent = "q:close"
  /\ ~sql_editor_mode
  /\ lastStep.entry = "where"
  /\ focus = "left"

\* C15: a key event processed in console mode changes none of selected
\* connection, selected object, object list, search filter, offset, rows
\* and metadata cache, and issues no listing and no count or fetch.
C15_ConsoleSuspendsPanels ==
  (lastStep.console /\ lastEvent \in ConsoleKeyTags) =>
    /\ ~lastStep.changed
    /\ ~lastStep.listed
    /\ lastCount = NoQuery
    /\ lastFetch = NoQuery

\* Page-forward in console mode moved the offset and fetched a page.
C15_PagedInConsole ==
  /\ phase = "running"
  /\ sql_editor_mode
  /\ lastStep.console
  /\ lastEvent = "page:next"
  /\ lastStep.changed
  /\ lastFetch.kind = "fetch"
  /\ rows_scroll_offset = rows_per_page

\* C16: an up or down key event that finds the focus on a text field (search,
\* ORDER BY, WHERE) leaves the selected connection index and the selected
\* object index as they were.
C16_TextFieldKeepsSelection ==
  ( /\ phase = "running"
    /\ lastEvent \in UpDownTags
    /\ lastStep.focus \in {"search", "order_by", "where"} )
  => /\ selected_conn_idx = lastStep.conn
     /\ selected_table_idx = lastStep.table

\* Up on the search field while the object list is the active column and
\* its second object is selected.
C16_UpOnSearch ==
  /\ phase = "running"
  /\ lastEvent = "up:noop"
  /\ lastStep.focus = "search"
  /\ active_column = 1
  /\ selected_table_idx = 1

\* C17: down on ORDER BY moves the focus to WHERE, up on WHERE moves it to
\* ORDER BY, and down on a list panel moves that panel's selection one item
\* toward the end, stopping at the last item.
C17_UpDownMoves ==
  /\ (phase = "running" /\ lastEvent = "down" /\ lastStep.focus = "order_by")
       => focus = "where"
  /\ (phase = "running" /\ lastEvent \in UpDownTags \ {"down"}
        /\ lastStep.focus = "where")
       => focus = "order_by"
  /\ (phase = "running" /\ lastEvent = "down" /\ lastStep.focus = "left")
       => selected_conn_idx = Min(Len(connections) - 1, lastStep.conn + 1)
  /\ (phase = "running" /\ lastEvent = "down" /\ lastStep.focus = "tables")
       => selected_table_idx = Min(Len(tables) - 1, lastStep.table + 1)

\* Down on ORDER BY left the focus on ORDER BY.
C17_DownIgnored ==
  /\ phase = "running"
  /\ lastEvent = "down"
  /\ lastStep.focus = "order_by"
  /\ focus = "order_by"

\* C18: a MOUSE_UP on a connection line or on an object line selects that
\* item and moves the focus to the panel clicked.
C18_ClickFocusesPanel ==
  /\ (phase = "running" /\ lastEvent = "conn:click") =>
       selected_conn_idx = lastStep.item /\ focus = "left"
  /\ (phase = "running" /\ lastEvent = "tables:click") =>
       selected_table_idx = lastStep.item /\ focus = "tables"

\* A click on the second object line selected it and put the focus on
\* ORDER BY.
C18_ClickFocusedOrderBy ==
  /\ phase = "running"
  /\ lastEvent = "tables:click"
  /\ lastStep.item = 1
  /\ selected_table_idx = 1
  /\ focus = "order_by"

\* C19: a left click on an object line toggles the details if and only if
\* it is the second of a run of rapid clicks on the same object; the first
\* click of a run and the third leave the metadata cache unchanged.
C19_OncePerDoubleClick ==
  ( /\ phase = "running"
    /\ lastEvent = "tables:click"
    /\ lastStep.run \in 1..3 )
  => /\ lastStep.toggled <=> lastStep.run = 2
     /\ lastStep.run # 2 => lastStep.kept

\* The third click of a run of rapid left clicks on one object toggled its
\* details again.
C19_ThirdClickToggled ==
  /\ phase = "running"
  /\ lastEvent = "tables:click"
  /\ lastStep.run = 3
  /\ lastStep.toggled
  /\ ~lastStep.kept

\* C20: after two toggles of the same object in succession the metadata
\* cache has the keys it had before the first, and the entries of all other
\* objects are the same.
C20_ToggleTwiceRestores ==
  (phase = "running" /\ lastStep.toggles = 2) =>
    /\ DOMAIN table_details = DOMAIN lastStep.before
    /\ \A k \in DOMAIN table_details \ {lastStep.toggle_key} :
         table_details[k] = lastStep.before[k]

\* The details of one object were expanded and collapsed again while those
\* of the other object stayed cached.
C20_ExpandedThenCollapsed ==
  /\ phase = "running"
  /\ lastStep.toggles = 2
  /\ lastStep.toggled
  /\ lastStep.toggle_key \notin DOMAIN table_details
  /\ DOMAIN table_details # {}

\* C21: after every reload of the object list, also one whose connect
\* attempt failed, the metadata cache is empty.
C21_ReloadClearsCache ==
  (phase = "running" /\ lastEvent \in ReloadTags) => table_details = EmptyDict

\* A click on the other connection whose connect failed emptied the object
\* list and left the details of an object of the first connection cached.
C21_CacheSurvivedReload ==
  /\ phase = "running"
  /\ lastEvent = "conn:click"
  /\ active_conn = None
  /\ tables = << >>
  /\ table_details # EmptyDict

\* C22: with a connection open, applying an empty search text (Enter on the
\* empty search field, or clearing it with Escape) leaves the object list
\* equal to the provider's full list, in provider order.
C22_EmptyFilterRestores ==
  ( /\ phase = "running"
    /\ lastEvent \in {"enter:search", "escape:search"}
    /\ table_search_buffer = Empty
    /\ active_conn # None )
  => tables = ProviderTables(connections[selected_conn_idx + 1])

\* Escape on the search field emptied the field while the object list kept
\* showing only the objects matching the filter.
C22_StillFiltered ==
  /\ phase = "running"
  /\ lastEvent = "escape:search"
  /\ table_search_buffer = Empty
  /\ table_search_filter # Empty
  /\ active_conn # None
  /\ Len(tables) < Len(ProviderTables(connections[selected_conn_idx + 1]))

\* C23: applying or clearing the search filter issues no object listing.
C23_FilterWithoutListing ==
  (phase = "running" /\ lastEvent \in SearchTags) => ~lastStep.listed

\* Enter on the search field issued an object listing and narrowed the
\* object list.
C23_ListedOnApply ==
  /\ phase = "running"
  /\ lastEvent = "enter:search"
  /\ lastStep.listed
  /\ all_tables = << >>
  /\ table_search_filter # Empty
  /\ Len(tables) = 1

\* C24: executing a blank text in the console while the result set of an
\* earlier query is held reports "Empty query" and leaves that result set
\* stored.
C24_BlankKeepsResults ==
  ( /\ phase = "running"
    /\ lastEvent = "execute"
    /\ Strip(sql_editor_buffer) = Empty
    /\ active_conn # None
    /\ lastStep.had_results )
  => /\ sql_query_error = "Empty query"
     /\ sql_query_results.present

\* A blank text was executed while a result set was held: the error is
\* "Empty query" and the result set is gone.
C24_ResultsCleared ==
  /\ phase = "running"
  /\ lastEvent = "execute"
  /\ Strip(sql_editor_buffer) = Empty
  /\ lastStep.had_results
  /\ sql_query_error = "Empty query"
  /\ ~sql_query_results.present

\* C25, as stated: an execute of a blank text, or with no connection open,
\* calls no provider, reports "Empty query" and leaves the history and the
\* cursor as they were.
C25_NoOpReportsEmptyQuery ==
  ( /\ phase = "running"
    /\ lastEvent = "execute"
    /\ Strip(sql_editor_buffer) = Empty \/ active_conn = None )
  => /\ ~lastStep.queried
     /\ sql_query_error = "Empty query"
     /\ lastStep.hist_kept
     /\ sql_history_index = lastStep.cursor

\* C25, amended: an execute of a blank text, or with no connection open,
\* calls no provider and leaves the history and the cursor as they were; it
\* reports "No database connection" when no connection is open and "Empty
\* query" otherwise.
C25_NoOpReportsError ==
  ( /\ phase = "running"
    /\ lastEvent = "execute"
    /\ Strip(sql_editor_buffer) = Empty \/ active_conn = None )
  => /\ ~lastStep.queried
     /\ sql_query_error = IF active_conn = None THEN "No database connection"
                          ELSE "Empty query"
     /\ lastStep.hist_kept
     /\ sql_history_index = lastStep.cursor

\* A blank text was executed with a connection open, two entries in the
\* history and the cursor on the older one.
C25_BlankWithHistory ==
  /\ phase = "running"
  /\ lastEvent = "execute"
  /\ Strip(sql_editor_buffer) = Empty
  /\ active_conn # None
  /\ Len(sql_query_history) = 2
  /\ sql_history_index = 1
  /\ sql_query_error = "Empty query"

C27_CursorInRange ==
  /\ sql_history_index \in -1..(Len(sql_query_history) - 1)
  /\ ( /\ phase = "running"
       /\ lastEvent = "up:history"
       /\ lastStep.cursor >= 0
       /\ lastStep.cursor = lastStep.hlen - 1 )
     => /\ sql_history_index = lastStep.cursor
        /\ lastStep.hist_kept

\* The up key was pressed with the cursor on the oldest of three entries.
C27_UpAtOldest ==
  /\ phase = "running"
  /\ lastEvent = "up:history"
  /\ lastStep.hlen = 3
  /\ lastStep.cursor = 2
  /\ sql_history_index = 2

C30_FailedConnectLeavesNoConnection ==
  /\ lastStep.connect = "failed" =>
       /\ phase = "running"
       /\ \E i \in DOMAIN lastStep.pushed : lastStep.pushed[i] = "Connection error"
       /\ OpenCount = 0
       /\ active_conn = None
       /\ active_conn_idx = -1
       /\ active_adapter = NoAdapter
       /\ tables = << >>
       /\ selected_table_idx = -1
       /\ rows = 0
  /\ (phase = "running" /\ lastStep.connect = "ok"
        /\ lastStep.prev_connect = "failed") =>
       /\ active_conn = selected_conn_idx
       /\ active_conn_idx = selected_conn_idx
       /\ OpenCount = 1
       /\ openHandles[active_conn] = 1

\* A click or a wheel step selected another connection while a handle was
\* open; the handle was closed and the connect failed.
C30_FailedAfterOpen ==
  /\ phase = "running"
  /\ lastEvent \in {"conn:click", "conn:scroll"}
  /\ lastStep.connect = "failed"
  /\ lastConnect.closed # None
  /\ lastConnect.closed # selected_conn_idx
  /\ ~lastConnect.ok

\* C31: an error the provider raises while an event handler lists the
\* objects, loads the details of an object or counts and fetches the rows of
\* the data panel does not end the session: after an event whose handler
\* only queries the provider the session is running.
C31_QueryErrorKeepsSession ==
  lastEvent \in QueryTags => phase = "running"

\* Enter applied the WHERE text the engine rejects, and the session ended
\* with the error.
C31_EndedByBadWhere ==
  /\ lastEvent = "enter:where"
  /\ lastCount.kind = "count"
  /\ lastCount.where = BadWhere
  /\ phase = "ended"
  /\ result = "error"

\* C32: a redraw leaves the session state as the event handler left it,
\* the viewport offset of the object list included, and makes no external
\* call.
C32_RenderIsPure ==
  phase = "running" =>
    /\ lastStep.drawn_from # None => table_offset = lastStep.drawn_from
    /\ ~lastStep.update_call

\* The terminal was enlarged while the object list was scrolled to its end:
\* the redraw moved the viewport offset.
C32_OffsetMovedByRedraw ==
  /\ phase = "running"
  /\ lastEvent = "resize"
  /\ lastStep.drawn_from # None
  /\ table_offset < lastStep.drawn_from

\* ts is the subsequence of the listing P, in the order of P, of exactly
\* the objects whose label "schema.name" (the bare name when the schema is
\* empty) contains f when both are lower-cased; all of P when f is empty.
IsFilteredListing(ts, P, f) ==
  LET label(t) == IF t[1] = Empty THEN t[2] ELSE t[1] \o <<".">> \o t[2]
      keep == { i \in 1..Len(P) :
                  f = Empty \/ Contains(Lower(label(P[i])), Lower(f)) }
  IN /\ Len(ts) = Cardinality(keep)
     /\ \E g \in [1..Len(ts) -> 1..Len(P)] :
          /\ \A k \in 1..Len(ts) : ts[k] = P[g[k]]
          /\ \A k, l \in 1..Len(ts) : k < l => g[k] < g[l]
          /\ { g[k] : k \in 1..Len(ts) } = keep

\* C33: after a successful reload of the object list under the search
\* filter f, the list is the subsequence of the provider's listing, in the
\* provider's order, of exactly the objects whose "schema.name" (bare name
\* when the schema is empty) contains f case-insensitively, and the whole
\* listing when f is empty.  (A document engine whose listing failed
\* reports no objects.)
C33_ListIsFilteredListing ==
  ( /\ phase = "running"
    /\ lastEvent \in SearchTags
    /\ lastStep.listed
    /\ active_conn # None )
  => LET cfg == connections[active_conn_idx + 1] IN
     \/ IsFilteredListing(tables, ProviderTables(cfg), table_search_filter)
     \/ cfg.db_type = "mongodb" /\ tables = << >>

\* The filter "b" was applied to the listing p.a, p.B: the list holds p.B
\* alone.
C33_MatchedByCaseFolding ==
  /\ phase = "running"
  /\ lastEvent = "enter:search"
  /\ lastStep.listed
  /\ table_search_filter = <<"b">>
  /\ tables = << << <<"p">>, <<"B">>, 20 >> >>

\* C34: a click on the header line of the data panel triggers the action of
\* the element drawn at the clicked column, and no action where no button
\* or arrow is drawn: the previous-page arrow pages back, the next-page
\* arrow pages forward, "[ CSV ]" exports CSV and "[ JSON ]" exports JSON.
C34_ClickHitsDrawnElement ==
  /\ lastStep.drawn = "prev" => lastEvent = "page:prev"
  /\ lastStep.drawn = "next" => lastEvent = "page:next"
  /\ lastStep.drawn = "csv" => lastEvent = "rows:csv"
  /\ lastStep.drawn = "json" => lastEvent = "rows:json"
  /\ lastStep.drawn \in {"title", "blank"} => lastEvent \in {"rows:noop", "rows:copy"}

\* A click on "[ CSV ]" paged back, and the panel shows the first page.
C34_CsvClickPagedBack ==
  /\ phase = "running"
  /\ lastStep.drawn = "csv"
  /\ lastEvent = "page:prev"
  /\ rows_scroll_offset = 0

\* C35: an event that reloads the connection whose handle is open makes no
\* connect attempt, leaves the provider's open handles as they were and
\* keeps the handle; and every connect attempt is made with no handle open
\* before the event or for another connection than the one that was open.
C35_SameIndexKeepsHandle ==
  phase = "running" =>
    /\ (lastStep.had_conn # None /\ lastStep.had_conn = selected_conn_idx) =>
         /\ lastStep.connect = "none"
         /\ lastStep.handles_kept
         /\ active_conn = lastStep.had_conn
         /\ active_conn_idx = selected_conn_idx
    /\ lastStep.connect # "none" =>
         lastStep.had_conn = None \/ lastStep.had_conn # selected_conn_idx

\* A click on the line of the connected connection reloaded its objects
\* over the handle that was open.
C35_ClickedOpenConnection ==
  /\ phase = "running"
  /\ lastEvent = "conn:click"
  /\ lastStep.had_conn # None
  /\ lastStep.had_conn = selected_conn_idx
  /\ active_conn = selected_conn_idx
  /\ openHandles[active_conn] = 1
  /\ tables # << >>

\* C36: every history entry is non-empty and has no leading or trailing
\* whitespace, and no two adjacent history entries are equal.
C36_HistoryEntriesClean ==
  /\ \A i \in DOMAIN sql_query_history :
       /\ sql_query_history[i] # Empty
       /\ sql_query_history[i][1] # " "
       /\ sql_query_history[i][Len(sql_query_history[i])] # " "
  /\ \A i \in 1..(Len(sql_query_history) - 1) :
       sql_query_history[i] # sql_query_history[i + 1]

\* The text " s " was executed after "t": the history has gained the entry
\* "s".
C36_PaddedQuerySaved ==
  /\ phase = "running"
  /\ lastEvent = "execute"
  /\ sql_editor_buffer = <<" ", "s", " ">>
  /\ lastStep.queried
  /\ ~lastStep.hist_kept
  /\ sql_query_history = << OtherSql, GoodSql >>

\* C37: the console's stored result set and stored error are never both
\* present.
C37_ResultXorError ==
  ~(sql_query_results.present /\ sql_query_error # NoError)

\* A blank text was executed while a result set was stored: the error is
\* stored and the result set is gone.
C37_ErrorReplacedResult ==
  /\ phase = "running"
  /\ lastEvent = "execute"
  /\ lastStep.had_results
  /\ sql_query_error = "Empty query"
  /\ ~sql_query_results.present

\* C38: while the session exists, the handle, its adapter and the active
\* index are set together or cleared together, the provider holds exactly
\* the session's handle open, and a non-empty object list goes with an open
\* handle and is what the search filter keeps of the listing of the
\* connection at the active index.
C38_HandleAdapterIndexTogether ==
  phase # "aborted" =>
    /\ (active_conn # None) <=> (active_adapter # NoAdapter)
    /\ (active_conn # None) <=> (active_conn_idx \in 0..(Len(connections) - 1))
    /\ active_conn # None =>
         /\ active_adapter = connections[active_conn_idx + 1].db_type
         /\ openHandles[active_conn_idx] = 1
    /\ OpenCount = IF active_conn # None THEN 1 ELSE 0
    /\ tables # << >> =>
         /\ active_conn # None
         /\ IsFilteredListing(tables, ProviderTables(connections[active_conn_idx + 1]),
                               table_search_filter)

\* The session switched from the first connection to the second: it holds
\* the second's handle, adapter and index, and shows the second's objects.
C38_SwitchedToSecond ==
  /\ phase = "running"
  /\ lastConnect.ok
  /\ lastConnect.closed = 0
  /\ active_conn_idx = 1
  /\ active_adapter = connections[2].db_type
  /\ tables = ProviderTables(connections[2])

\* C39: the persisted clauses are keyed by (schema, name) alone and survive
\* a connection switch: while the clause an enter press stored last for a
\* key stands, every data refresh of an object with that key carries it,
\* whichever connection is active.
C39_StoredClauseFollowsKey ==
  ( /\ phase = "running"
    /\ lastStep.commit.kind # "none"
    /\ lastFetch.kind = "fetch"
    /\ << lastFetch.schema, lastFetch.table >> = lastStep.commit.key )
  => IF lastStep.commit.kind = "where"
     THEN lastFetch.where = lastStep.commit.text
     ELSE lastFetch.order_by = lastStep.commit.text

\* a WHERE stored for p.a on the first connection is sent for p.a of the
\* second
C39_WhereCarriedAcross ==
  /\ phase = "running"
  /\ lastStep.commit.kind = "where"
  /\ lastStep.commit.conn = 0
  /\ lastStep.commit.key = << <<"p">>, <<"a">> >>
  /\ lastStep.commit.text = GoodWhere
  /\ lastFetch.kind = "fetch"
  /\ lastFetch.conn = 1
  /\ lastFetch.table = <<"a">>
  /\ lastFetch.where = GoodWhere

TypeOK ==
  /\ selected_conn_idx \in -1..(Len(connections) - 1)
  /\ phase \in {"start", "running", "ended", "aborted"}

====
